---------------------------- MODULE Spec2Model ----------------------------
(***************************************************************************)
(* A model of the availability / matchmaking store of wheatley-bot         *)
(* (src/state.py, class Database) and of the command handlers that call it *)
(* (src/commands/availability.py).                                         *)
(*                                                                         *)
(* Strings that the program compares or transforms character by character  *)
(* (HH:MM times, user-id keys, game names) are sequences of character      *)
(* codes, so that string order, str(), int(), strftime() and               *)
(* normalize_game_name() are computed and not assumed.  Weekday keys and   *)
(* timezone names are only compared for equality and are TLA+ strings.     *)
(***************************************************************************)
EXTENDS Integers, Sequences, FiniteSets, TLC

VARIABLES
    db,     \* the SQLite database: tables users, games, availability
    last,   \* the most recent call on the Database object and its outcome
    tasks,  \* the command handlers in flight on the event loop
    base,   \* the database when the handlers in flight were dispatched
    client  \* the JSON-state bot: state.json, the objects of the state it
            \* holds in memory and what its functions last returned

vars == <<db, last, tasks, base, client>>

(***************************************************************************)
(* Strings                                                                 *)
(***************************************************************************)

\* Python str / SQLite TEXT (BINARY collation) order: by code point, a proper
\* prefix sorting first.
StrLess(a, b) ==
    \/ /\ Len(a) < Len(b)
       /\ \A i \in 1..Len(a) : a[i] = b[i]
    \/ \E i \in 1..Len(a) :
          /\ i <= Len(b)
          /\ a[i] < b[i]
          /\ \A j \in 1..(i - 1) : a[j] = b[j]

StrLeq(a, b) == a = b \/ StrLess(a, b)

StrMin(a, b) == IF StrLeq(a, b) THEN a ELSE b

StrMax(a, b) == IF StrLeq(a, b) THEN b ELSE a

\* The code of a decimal digit character.
Digit(d) == 48 + d

\* strftime("%H:%M"): two zero-padded digits, a colon, two zero-padded digits.
strftime_HM(h, m) ==
    <<Digit(h \div 10), Digit(h % 10), 58, Digit(m \div 10), Digit(m % 10)>>

\* The last minute of the day, "23:59", as the end of the first half.
EndOfDayLastMinute == <<Digit(2), Digit(3), 58, Digit(5), Digit(9)>>

\* The end-of-day sentinel "24:00" written by add_day_availability.
EndOfDay == <<Digit(2), Digit(4), 58, Digit(0), Digit(0)>>

\* The start-of-day bound "00:00" written by add_day_availability.
StartOfDay == <<Digit(0), Digit(0), 58, Digit(0), Digit(0)>>

\* Whether every character of s is a decimal digit.
AllDigits(s) == \A i \in 1..Len(s) : s[i] >= 48 /\ s[i] <= 57

\* The number a string of at most two decimal digits denotes.
DigitsValue(s) == IF Len(s) = 1 THEN s[1] - 48 ELSE (s[1] - 48) * 10 + (s[2] - 48)

\* validate_time: whether datetime.strptime(t, "%H:%M") succeeds.  strptime
\* reads %H as one or two digits up to 23 and %M as one or two digits up to
\* 59, and fails when characters are left over.
validate_time(t) ==
    \E k \in 2..3 :
        /\ k < Len(t)
        /\ t[k] = 58
        /\ Len(t) - k <= 2
        /\ AllDigits(SubSeq(t, 1, k - 1))
        /\ AllDigits(SubSeq(t, k + 1, Len(t)))
        /\ DigitsValue(SubSeq(t, 1, k - 1)) <= 23
        /\ DigitsValue(SubSeq(t, k + 1, Len(t))) <= 59

RECURSIVE uid(_)
\* _uid: str(user_id), the decimal string of a non-negative integer.
uid(n) == IF n < 10 THEN <<Digit(n)>> ELSE uid(n \div 10) \o <<Digit(n % 10)>>

RECURSIVE int(_)
\* int(uid_str) of a decimal string.
int(s) ==
    IF Len(s) = 0 THEN 0
    ELSE 10 * int(SubSeq(s, 1, Len(s) - 1)) + (s[Len(s)] - 48)

(***************************************************************************)
(* Weekdays                                                                *)
(***************************************************************************)

DAY_KEYS == <<"mon", "tue", "wed", "thu", "fri", "sat", "sun">>

DayKeySet == {DAY_KEYS[i] : i \in 1..Len(DAY_KEYS)}

\* list.index, zero-based as in Python.
DayIndex(day) == (CHOOSE i \in 1..Len(DAY_KEYS) : DAY_KEYS[i] = day) - 1

\* A next_day whose modulus is one short: the day after sun is not mon.
next_day_short_modulus(day) ==
    DAY_KEYS[((DayIndex(day) + 1) % (Len(DAY_KEYS) - 1)) + 1]

\* DAY_KEYS[(DAY_KEYS.index(day) + 1) % 7]
next_day(day) == DAY_KEYS[((DayIndex(day) + 1) % Len(DAY_KEYS)) + 1]

(***************************************************************************)
(* Sequences of table rows                                                 *)
(***************************************************************************)

RECURSIVE InsertByStart(_, _)
\* Insert row r after every row of the sorted list whose start_time is <= r's.
InsertByStart(sorted, r) ==
    IF sorted = <<>> THEN <<r>>
    ELSE IF StrLeq(Head(sorted).start_time, r.start_time)
         THEN <<Head(sorted)>> \o InsertByStart(Tail(sorted), r)
         ELSE <<r>> \o sorted

\* The rows as fetched without ORDER BY: rowid order.
rowid_order(rows) == rows

RECURSIVE OrderByStartTime(_)
\* ORDER BY start_time, rows with equal start_time staying in rowid order.
OrderByStartTime(rows) ==
    IF rows = <<>> THEN <<>>
    ELSE InsertByStart(OrderByStartTime(SubSeq(rows, 1, Len(rows) - 1)), rows[Len(rows)])

(***************************************************************************)
(* The database                                                            *)
(***************************************************************************)

\* SQL NULL in users.timezone.
NULL == "NULL"

\* The database after Database.__init__ on a fresh file: the three tables
\* created by _MIGRATIONS, all empty.  users is the set of its rows (no
\* statement reads them in rowid order), one per user_id, the primary key;
\* games and availability list their rows in rowid order.
EmptyDb == [users |-> {}, games |-> <<>>, availability |-> <<>>]

UserKeys(d) == {r.user_id : r \in d.users}

\* An insertion into users without the primary key on user_id: a row with no
\* timezone is added whatever rows the user has.
ensure_user_plain_insert(d, user_id) ==
    [d EXCEPT !.users = @ \cup {[user_id |-> uid(user_id), timezone |-> NULL]}]

\* INSERT OR IGNORE INTO users (user_id) VALUES (?)
ensure_user(d, user_id) ==
    IF uid(user_id) \in UserKeys(d) THEN d
    ELSE [d EXCEPT !.users = @ \cup {[user_id |-> uid(user_id), timezone |-> NULL]}]

\* An overlap test with strict comparisons: slots that only share a boundary
\* do not count as overlapping.
slots_overlap_strict(s1_start, s1_end, s2_start, s2_end) ==
    StrLess(s1_start, s2_end) /\ StrLess(s2_start, s1_end)

\* s1_start <= s2_end and s1_end >= s2_start
slots_overlap(s1_start, s1_end, s2_start, s2_end) ==
    StrLeq(s1_start, s2_end) /\ StrLeq(s2_start, s1_end)

\* A merge with min and max exchanged: the intersection, not the union.
merge_slot_exchanged(existing_start, existing_end, new_start, new_end) ==
    <<StrMax(existing_start, new_start), StrMin(existing_end, new_end)>>

\* min(existing_start, new_start), max(existing_end, new_end)
merge_slot(existing_start, existing_end, new_start, new_end) ==
    <<StrMin(existing_start, new_start), StrMax(existing_end, new_end)>>

RECURSIVE MergeScan(_, _, _, _)
\* The for-loop of _add_normal_slot over the fetched rows, in the order
\* fetched: acc is <<new_start, new_end, ids_to_delete>>, where a row is
\* identified by its position in the availability table.
MergeScan(table, positions, i, acc) ==
    IF i > Len(positions) THEN acc
    ELSE LET row == table[positions[i]] IN
         IF slots_overlap(acc[1], acc[2], row.start_time, row.end_time)
         THEN LET m == merge_slot(row.start_time, row.end_time, acc[1], acc[2]) IN
              MergeScan(table, positions, i + 1,
                        <<m[1], m[2], acc[3] \cup {positions[i]}>>)
         ELSE MergeScan(table, positions, i + 1, acc)

\* The positions of a table's rows, ascending: rowid order.
Positions(rows) == [i \in 1..Len(rows) |-> i]

\* DELETE FROM availability WHERE id IN (...)
DeleteAt(rows, ids) ==
    LET Keep(i) == i \notin ids
        left == SelectSeq(Positions(rows), Keep)
    IN  [k \in 1..Len(left) |-> rows[left[k]]]

\* An insert of the new slot as it is, without the merge.
add_normal_slot_unmerged(d, u, day, start, end) ==
    [d EXCEPT !.availability =
        Append(@, [user_id |-> u, day |-> day, start_time |-> start, end_time |-> end])]

\* A merge over the rows of the day of every user.
add_normal_slot_any_user(d, u, day, start, end) ==
    LET Mine(i) == d.availability[i].day = day
        fetched == SelectSeq(Positions(d.availability), Mine)
        acc     == MergeScan(d.availability, fetched, 1, <<start, end, {}>>)
        kept    == DeleteAt(d.availability, acc[3])
    IN  [d EXCEPT !.availability =
            Append(kept, [user_id |-> u, day |-> day,
                          start_time |-> acc[1], end_time |-> acc[2]])]

\* Database._add_normal_slot: select the user's rows of the day, merge the
\* new slot with every row it overlaps or touches, delete those rows and
\* insert the merged slot (AUTOINCREMENT: the new row has the largest id).
add_normal_slot(d, u, day, start, end) ==
    LET Mine(i) == d.availability[i].user_id = u /\ d.availability[i].day = day
        fetched == SelectSeq(Positions(d.availability), Mine)
        acc     == MergeScan(d.availability, fetched, 1, <<start, end, {}>>)
        kept    == DeleteAt(d.availability, acc[3])
    IN  [d EXCEPT !.availability =
            Append(kept, [user_id |-> u, day |-> day,
                          start_time |-> acc[1], end_time |-> acc[2]])]

\* Database.add_day_availability: <<database after the call, outcome>>.
add_day_availability(d, user_id, day, start, end) ==
    IF day \notin DayKeySet THEN <<d, "ValueError">>
    ELSE IF start = end THEN <<d, "ValueError">>
    ELSE LET d1 == ensure_user(d, user_id)
             u  == uid(user_id)
         IN  IF StrLess(start, end)
             THEN <<add_normal_slot(d1, u, day, start, end), "ok">>
             ELSE <<add_normal_slot(add_normal_slot(d1, u, day, start, EndOfDay),
                                    u, next_day(day), StartOfDay, end), "ok">>

\* A clear that deletes the user's rows of every day.
clear_every_day(d, user_id, day) ==
    IF day \notin DayKeySet THEN <<d, "ValueError">>
    ELSE LET Other(r) == r.user_id # uid(user_id)
         IN  <<[d EXCEPT !.availability = SelectSeq(@, Other)], "ok">>

\* Database.clear_day_availability: <<database after the call, outcome>>.
clear_day_availability(d, user_id, day) ==
    IF day \notin DayKeySet THEN <<d, "ValueError">>
    ELSE LET Other(r) == ~(r.user_id = uid(user_id) /\ r.day = day)
         IN  <<[d EXCEPT !.availability = SelectSeq(@, Other)], "ok">>

\* Database.get_availability: every weekday key mapped to the user's slots of
\* that day, the rows having been fetched ORDER BY start_time.
get_availability(d, user_id) ==
    LET Mine(r)  == r.user_id = uid(user_id)
        rows     == OrderByStartTime(SelectSeq(d.availability, Mine))
    IN  [day \in DayKeySet |->
            LET OfDay(r) == r.day = day
                Slot(r)  == [start |-> r.start_time, end |-> r.end_time]
                rs       == SelectSeq(rows, OfDay)
            IN  [i \in 1..Len(rs) |-> Slot(rs[i])]]

(***************************************************************************)
(* Games and timezones                                                     *)
(***************************************************************************)

\* str.split() separators among the ASCII characters.
IsSpace(c) == c \in {9, 10, 11, 12, 13, 32}

\* str.lower() on an ASCII character.
Lower(c) == IF c >= 65 /\ c <= 90 THEN c + 32 ELSE c

\* normalize_game_name: "".join(name.split()).lower()
normalize_game_name(name) ==
    LET NotSpace(c) == ~IsSpace(c)
        kept == SelectSeq(name, NotSpace)
    IN  [i \in 1..Len(kept) |-> Lower(kept[i])]

\* An insertion into games without the primary key (user_id, normalized): the
\* row is always added.
add_game_plain_insert(d, user_id, game_name) ==
    [ensure_user(d, user_id) EXCEPT !.games =
        Append(@, [user_id |-> uid(user_id), game_name |-> game_name,
                   normalized |-> normalize_game_name(game_name)])]

\* INSERT OR REPLACE: the row in conflict is deleted and the new row is last.
add_game_or_replace(d, user_id, game_name) ==
    LET d1         == ensure_user(d, user_id)
        normalized == normalize_game_name(game_name)
        Free(r)    == ~(r.user_id = uid(user_id) /\ r.normalized = normalized)
    IN  [d1 EXCEPT !.games =
            Append(SelectSeq(@, Free),
                   [user_id |-> uid(user_id), game_name |-> game_name,
                    normalized |-> normalized])]

\* Database.add_game: INSERT ... ON CONFLICT (user_id, normalized) DO UPDATE
\* SET game_name: the row in conflict keeps its rowid, a new row is last.
add_game(d, user_id, game_name) ==
    LET d1         == ensure_user(d, user_id)
        normalized == normalize_game_name(game_name)
        Conflict(i) == /\ d1.games[i].user_id = uid(user_id)
                       /\ d1.games[i].normalized = normalized
    IN  IF \E i \in 1..Len(d1.games) : Conflict(i)
        THEN [d1 EXCEPT !.games =
                 [i \in 1..Len(@) |->
                     IF Conflict(i) THEN [@[i] EXCEPT !.game_name = game_name] ELSE @[i]]]
        ELSE [d1 EXCEPT !.games =
                 Append(@, [user_id |-> uid(user_id), game_name |-> game_name,
                            normalized |-> normalized])]

\* Database.set_timezone: UPDATE users SET timezone = ? WHERE user_id = ?
set_timezone(d, user_id, tz) ==
    LET d1 == ensure_user(d, user_id) IN
    [d1 EXCEPT !.users =
        {IF r.user_id = uid(user_id) THEN [r EXCEPT !.timezone = tz] ELSE r : r \in @}]

\* A removal that compares the stored spelling with the name given.
remove_game_by_spelling(d, user_id, game_name) ==
    LET Hit(r)  == r.user_id = uid(user_id) /\ r.game_name = game_name
        Miss(r) == ~Hit(r)
    IN  <<[d EXCEPT !.games = SelectSeq(@, Miss)],
          SelectSeq(d.games, Hit) # <<>>>>

\* Database.remove_game: DELETE FROM games WHERE user_id = ? AND normalized = ?
\* <<database after the call, cur.rowcount > 0>>.
remove_game(d, user_id, game_name) ==
    LET normalized == normalize_game_name(game_name)
        Hit(r)  == r.user_id = uid(user_id) /\ r.normalized = normalized
        Miss(r) == ~Hit(r)
    IN  <<[d EXCEPT !.games = SelectSeq(@, Miss)],
          Len(SelectSeq(d.games, Hit)) > 0>>

\* Database.list_games: SELECT game_name ... WHERE user_id = ? ORDER BY rowid
list_games(d, user_id) ==
    LET Mine(r) == r.user_id = uid(user_id)
        rows    == SelectSeq(d.games, Mine)
    IN  [i \in 1..Len(rows) |-> rows[i].game_name]

RECURSIVE JoinCommon(_, _, _, _)
\* SELECT a.game_name FROM games a JOIN games b ON a.normalized = b.normalized
\* WHERE a.user_id = ? AND b.user_id = ? ORDER BY a.rowid: from row i of the
\* games table on, every row of a once for each row of b it joins with.
JoinCommon(d, a_uid, b_uid, i) ==
    IF i > Len(d.games) THEN <<>>
    ELSE LET joined == {j \in 1..Len(d.games) :
                           /\ d.games[j].user_id = b_uid
                           /\ d.games[j].normalized = d.games[i].normalized}
             n      == IF d.games[i].user_id = a_uid THEN Cardinality(joined) ELSE 0
         IN  [k \in 1..n |-> d.games[i].game_name] \o JoinCommon(d, a_uid, b_uid, i + 1)

\* The games of a, whether b has them or not.
get_common_games_unjoined(d, user_id_a, user_id_b) == list_games(d, user_id_a)

\* The games in common in b's spellings.
get_common_games_of_b(d, user_id_a, user_id_b) ==
    JoinCommon(d, uid(user_id_b), uid(user_id_a), 1)

\* Database.get_common_games
get_common_games(d, user_id_a, user_id_b) ==
    JoinCommon(d, uid(user_id_a), uid(user_id_b), 1)

\* A lookup that reports UTC when no timezone is stored.
get_timezone_default_utc(d, user_id) ==
    LET rows == {r \in d.users : r.user_id = uid(user_id) /\ r.timezone # NULL}
    IN  IF rows # {} THEN (CHOOSE r \in rows : TRUE).timezone ELSE "UTC"

\* Database.get_timezone: the stored value if there is a row and the value is
\* neither NULL nor empty, else None (NULL).
get_timezone(d, user_id) ==
    LET rows == {r \in d.users :
                    r.user_id = uid(user_id) /\ r.timezone # NULL /\ r.timezone # ""}
    IN  IF rows # {} THEN (CHOOSE r \in rows : TRUE).timezone ELSE NULL

\* Database.user_count: SELECT COUNT(*) FROM users
user_count(d) == Cardinality(d.users)

(***************************************************************************)
(* Matchmaking                                                             *)
(***************************************************************************)

\* ZoneInfo(tz_name) for the zone names in use, as the offset from UTC in
\* minutes that the zone has at the instants considered (standard time); a
\* name outside the table makes ZoneInfo raise.
ZoneOffset == ("UTC" :> 0) @@ ("US/Eastern" :> (0 - 300))

\* The instant read as if it were already local time.
astimezone_naive(now_utc, tz_name) == now_utc

\* now_utc.astimezone(tz): weekday() (Monday is 0) and the minute of the day
\* of the local time; an instant is at most a day away from its local time.
astimezone(now_utc, tz_name) ==
    LET total == now_utc.minute + ZoneOffset[tz_name] IN
    [weekday |-> (now_utc.weekday + (total \div 1440)) % 7,
     minute  |-> total % 1440]

\* The body of the loop of _available_user_ids with the weekday taken from the
\* UTC instant instead of the local time.
is_available_now_utc_weekday(d, uid_str, tz_name, now_utc) ==
    /\ tz_name \in DOMAIN ZoneOffset
    /\ LET local_now == astimezone(now_utc, tz_name)
           today     == DAY_KEYS[now_utc.weekday + 1]
           now_str   == strftime_HM(local_now.minute \div 60, local_now.minute % 60)
       IN  \E i \in 1..Len(d.availability) :
              /\ d.availability[i].user_id = uid_str
              /\ d.availability[i].day = today
              /\ StrLeq(d.availability[i].start_time, now_str)
              /\ StrLess(now_str, d.availability[i].end_time)

\* The body of the loop of _available_user_ids: whether the user of a row of
\* users is added to the available set.
is_available_now(d, uid_str, tz_name, now_utc) ==
    /\ tz_name \in DOMAIN ZoneOffset
    /\ LET local_now == astimezone(now_utc, tz_name)
           today     == DAY_KEYS[local_now.weekday + 1]
           now_str   == strftime_HM(local_now.minute \div 60, local_now.minute % 60)
       IN  \E i \in 1..Len(d.availability) :
              /\ d.availability[i].user_id = uid_str
              /\ d.availability[i].day = today
              /\ StrLeq(d.availability[i].start_time, now_str)
              /\ StrLess(now_str, d.availability[i].end_time)

\* Database._available_user_ids
available_user_ids(d, now_utc) ==
    LET rows == {r \in d.users :
                    /\ r.timezone # NULL
                    /\ \E i \in 1..Len(d.availability) :
                          d.availability[i].user_id = r.user_id}
    IN  {int(r.user_id) : r \in {x \in rows :
                                   is_available_now(d, x.user_id, x.timezone, now_utc)}}

RECURSIVE SortText(_)
\* A set of strings in ascending TEXT order.
SortText(S) ==
    IF S = {} THEN <<>>
    ELSE LET m == CHOOSE x \in S : \A y \in S : StrLeq(x, y)
         IN  <<m>> \o SortText(S \ {m})

\* Database.all_game_names: SELECT DISTINCT game_name FROM games ORDER BY
\* game_name
all_game_names(d) == SortText({d.games[i].game_name : i \in 1..Len(d.games)})

RECURSIVE JoinRows(_, _, _, _)
\* SELECT b.user_id, a.game_name, a.normalized FROM games a JOIN games b
\* ON a.normalized = b.normalized WHERE a.user_id = ? AND b.user_id IN (...)
\* ORDER BY b.user_id, a.rowid: b_ids are the b.user_id values in TEXT order.
JoinRows(d, a_uid, b_ids, k) ==
    IF k > Len(b_ids) THEN <<>>
    ELSE LET Matches(i) ==
                 /\ d.games[i].user_id = a_uid
                 /\ \E j \in 1..Len(d.games) :
                       /\ d.games[j].user_id = b_ids[k]
                       /\ d.games[j].normalized = d.games[i].normalized
             hits == SelectSeq(Positions(d.games), Matches)
         IN  [n \in 1..Len(hits) |->
                 [user_id |-> b_ids[k], game_name |-> d.games[hits[n]].game_name,
                  normalized |-> d.games[hits[n]].normalized]]
             \o JoinRows(d, a_uid, b_ids, k + 1)

\* All rows taken as one group.
groupby_one_group(rows) == IF rows = <<>> THEN <<>> ELSE <<rows>>

RECURSIVE groupby(_)
\* itertools.groupby(rows, key=lambda r: r[0]): the maximal runs of
\* consecutive rows with the same user_id.
groupby(rows) ==
    IF rows = <<>> THEN <<>>
    ELSE LET n == CHOOSE m \in 1..Len(rows) :
                      /\ \A i \in 1..m : rows[i].user_id = rows[1].user_id
                      /\ m = Len(rows) \/ rows[m + 1].user_id # rows[1].user_id
         IN  <<SubSeq(rows, 1, n)>> \o groupby(SubSeq(rows, n + 1, Len(rows)))

\* game_filter is <<>> for None and <<name>> for a string.  norm_filter:
\* normalize_game_name(game_filter) if game_filter else None.
norm_filter_of(game_filter) ==
    IF game_filter # <<>> /\ game_filter[1] # <<>>
    THEN <<normalize_game_name(game_filter[1])>>
    ELSE <<>>

\* if norm_filter and normalized != norm_filter: continue
skipped_by_filter(norm_filter, normalized) ==
    /\ norm_filter # <<>>
    /\ norm_filter[1] # <<>>
    /\ normalized # norm_filter[1]

RECURSIVE group_results(_, _, _)
\* The loop over the groups: a group whose games pass the filter yields
\* (int(uid_str), games).
group_results(groups, norm_filter, k) ==
    IF k > Len(groups) THEN <<>>
    ELSE LET Passes(r) == ~skipped_by_filter(norm_filter, r.normalized)
             kept  == SelectSeq(groups[k], Passes)
             games == [i \in 1..Len(kept) |-> kept[i].game_name]
         IN  (IF games # <<>> THEN <<<<int(groups[k][1].user_id), games>>>> ELSE <<>>)
             \o group_results(groups, norm_filter, k + 1)

RECURSIVE InsertById(_, _)
InsertById(sorted, r) ==
    IF sorted = <<>> THEN <<r>>
    ELSE IF Head(sorted)[1] <= r[1]
         THEN <<Head(sorted)>> \o InsertById(Tail(sorted), r)
         ELSE <<r>> \o sorted

\* results left in the order of the query, without the final sort.
unsorted_results(results) == results

RECURSIVE sort_by_id(_)
\* results.sort(key=lambda x: x[0]): a stable sort on the numeric user id.
sort_by_id(results) ==
    IF results = <<>> THEN <<>>
    ELSE InsertById(sort_by_id(SubSeq(results, 1, Len(results) - 1)),
                    results[Len(results)])

\* The available set with the invoker left in.
keep_invoker(available, invoker_id) == available

\* available.discard(invoker_id)
discard(available, invoker_id) == available \ {invoker_id}

\* Database.find_ready_players
find_ready_players(d, invoker_id, now_utc, game_filter) ==
    LET available == discard(available_user_ids(d, now_utc), invoker_id) IN
    IF available = {} THEN <<>>
    ELSE LET b_ids == SortText({uid(x) : x \in available})
             rows  == JoinRows(d, uid(invoker_id), b_ids, 1)
         IN  sort_by_id(group_results(groupby(rows), norm_filter_of(game_filter), 1))

(***************************************************************************)
(* Calls on the Database object                                            *)
(***************************************************************************)

\* The JSON-state bot has not been started: no state.json, no objects.
NoClient ==
    [file |-> [kind |-> "missing", users |-> <<>>], heap |-> <<>>, state |-> <<>>,
     ret |-> <<>>, outcome |-> "none", user_id |-> 0]

\* No call has been made yet.  The fields a call does not use keep these
\* values; game is <<>> for None and <<name>> for a string, other is the
\* second user of get_common_games, out is a list or <<value returned>>.
NoCall ==
    [op |-> "none", user_id |-> 0, day |-> "", start |-> <<>>, end |-> <<>>,
     now |-> [weekday |-> 0, minute |-> 0], game |-> <<>>,
     outcome |-> "none", out |-> <<>>, other |-> 0, tz |-> NULL]

Call_add_day_availability(user_id, day, start, end) ==
    LET r == add_day_availability(db, user_id, day, start, end) IN
    /\ db' = r[1]
    /\ last' = [NoCall EXCEPT !.op = "add_day_availability", !.user_id = user_id,
                              !.day = day, !.start = start, !.end = end,
                              !.outcome = r[2]]
    /\ UNCHANGED <<tasks, base, client>>

Call_clear_day_availability(user_id, day) ==
    LET r == clear_day_availability(db, user_id, day) IN
    /\ db' = r[1]
    /\ last' = [NoCall EXCEPT !.op = "clear_day_availability", !.user_id = user_id,
                              !.day = day, !.outcome = r[2]]
    /\ UNCHANGED <<tasks, base, client>>

Call_set_timezone(user_id, tz) ==
    /\ db' = set_timezone(db, user_id, tz)
    /\ last' = [NoCall EXCEPT !.op = "set_timezone", !.user_id = user_id,
                              !.tz = tz, !.outcome = "ok"]
    /\ UNCHANGED <<tasks, base, client>>

Call_add_game(user_id, game_name) ==
    /\ db' = add_game(db, user_id, game_name)
    /\ last' = [NoCall EXCEPT !.op = "add_game", !.user_id = user_id,
                              !.game = <<game_name>>, !.outcome = "ok"]
    /\ UNCHANGED <<tasks, base, client>>

Call_find_ready_players(invoker_id, now_utc, game_filter) ==
    /\ db' = db
    /\ last' = [NoCall EXCEPT !.op = "find_ready_players", !.user_id = invoker_id,
                              !.now = now_utc, !.game = game_filter,
                              !.outcome = "ok",
                              !.out = find_ready_players(db, invoker_id, now_utc,
                                                         game_filter)]
    /\ UNCHANGED <<tasks, base, client>>

Call_remove_game(user_id, game_name) ==
    LET r == remove_game(db, user_id, game_name) IN
    /\ db' = r[1]
    /\ last' = [NoCall EXCEPT !.op = "remove_game", !.user_id = user_id,
                              !.game = <<game_name>>, !.outcome = "ok",
                              !.out = <<r[2]>>]
    /\ UNCHANGED <<tasks, base, client>>

Call_list_games(user_id) ==
    /\ db' = db
    /\ last' = [NoCall EXCEPT !.op = "list_games", !.user_id = user_id,
                              !.outcome = "ok", !.out = list_games(db, user_id)]
    /\ UNCHANGED <<tasks, base, client>>

Call_get_common_games(user_id_a, user_id_b) ==
    /\ db' = db
    /\ last' = [NoCall EXCEPT !.op = "get_common_games", !.user_id = user_id_a,
                              !.other = user_id_b, !.outcome = "ok",
                              !.out = get_common_games(db, user_id_a, user_id_b)]
    /\ UNCHANGED <<tasks, base, client>>

Call_all_game_names ==
    /\ db' = db
    /\ last' = [NoCall EXCEPT !.op = "all_game_names", !.outcome = "ok",
                              !.out = all_game_names(db)]
    /\ UNCHANGED <<tasks, base, client>>

Call_get_timezone(user_id) ==
    /\ db' = db
    /\ last' = [NoCall EXCEPT !.op = "get_timezone", !.user_id = user_id,
                              !.outcome = "ok", !.out = <<get_timezone(db, user_id)>>]
    /\ UNCHANGED <<tasks, base, client>>

Call_get_availability(user_id) ==
    /\ db' = db
    /\ last' = [NoCall EXCEPT !.op = "get_availability", !.user_id = user_id,
                              !.outcome = "ok",
                              !.out = <<get_availability(db, user_id)>>]
    /\ UNCHANGED <<tasks, base, client>>

Call_user_count ==
    /\ db' = db
    /\ last' = [NoCall EXCEPT !.op = "user_count", !.outcome = "ok",
                              !.out = <<user_count(db)>>]
    /\ UNCHANGED <<tasks, base, client>>

\* AvailabilityCog.set_availability up to its reply: the command's day is
\* one of DAY_CHOICES; the times are checked with validate_time and for
\* start == end before the store is called.
Handle_set_availability(user_id, day, start, end) ==
    IF ~validate_time(start) \/ ~validate_time(end)
    THEN /\ db' = db
         /\ last' = [NoCall EXCEPT !.op = "set_availability", !.user_id = user_id,
                                   !.day = day, !.start = start, !.end = end,
                                   !.outcome = "Times must be in HH:MM format"]
         /\ UNCHANGED <<tasks, base, client>>
    ELSE IF start = end
    THEN /\ db' = db
         /\ last' = [NoCall EXCEPT !.op = "set_availability", !.user_id = user_id,
                                   !.day = day, !.start = start, !.end = end,
                                   !.outcome = "Start and end times must be different"]
         /\ UNCHANGED <<tasks, base, client>>
    ELSE Call_add_day_availability(user_id, day, start, end)

(***************************************************************************)
(* Command handlers on the event loop                                      *)
(*                                                                         *)
(* Every slash command runs as a coroutine on one asyncio event loop: a    *)
(* handler runs until it reaches an await, and only there can another      *)
(* handler run.  A handler is a record with its position pc, its command   *)
(* and arguments, the _add_normal_slot calls still to make (pending) and   *)
(* the rows its last SELECT fetched (rows).                                *)
(***************************************************************************)

TaskIds == {1, 2}

\* No handler.
NoTask ==
    [pc |-> "idle", cmd |-> "none", user_id |-> 0, day |-> "", start |-> <<>>,
     end |-> <<>>, pending |-> <<>>, rows |-> <<>>,
     now |-> [weekday |-> 0, minute |-> 0]]

NoTasks == [t \in TaskIds |-> NoTask]

\* A handler that has been dispatched and has not run yet.
Started(cmd, user_id, day, start, end) ==
    [NoTask EXCEPT !.pc = "start", !.cmd = cmd, !.user_id = user_id, !.day = day,
                   !.start = start, !.end = end]

\* A my_availability or ready_to_play handler that has been dispatched and
\* has not run yet; now is what datetime.now(timezone.utc) will return.
StartedRead(cmd, user_id, now) ==
    [NoTask EXCEPT !.pc = "start", !.cmd = cmd, !.user_id = user_id, !.now = now]

\* The positions of a handler with an await in the store operations.
AwaitPointsInStore == {"write", "send_message"}

\* The positions at which a handler is suspended: set_availability and
\* clear_availability await only interaction.response.send_message, and the
\* Database methods they call have no await.
AwaitPoints == {"send_message"}

\* One step of a handler from its position, on the database d:
\* <<database, handler>> after the step.
\*   start         set_availability: the checks of the times, then
\*                 add_day_availability up to its first _add_normal_slot;
\*                 clear_availability: the whole clear_day_availability
\*   select        the SELECT of _add_normal_slot
\*   write         the loop, the DELETE and the INSERT of _add_normal_slot (a
\*                 fetched row is identified by its content), and the commit
\*                 after the last one
\*   send_message  the reply
\* my_availability and ready_to_play make their queries at start and keep
\* the result, <<value returned>>, in rows.
HandlerStep(d, t) ==
    IF t.pc = "start" /\ t.cmd = "my_availability"
    THEN <<d, [t EXCEPT !.pc = "send_message",
                        !.rows = <<get_availability(d, t.user_id)>>]>>
    ELSE IF t.pc = "start" /\ t.cmd = "ready_to_play"
    THEN <<d, [t EXCEPT !.pc = "send_message",
                        !.rows = <<find_ready_players(d, t.user_id, t.now, <<>>)>>]>>
    ELSE IF t.pc = "start" /\ t.cmd = "clear_availability"
    THEN <<clear_day_availability(d, t.user_id, t.day)[1],
           [t EXCEPT !.pc = "send_message"]>>
    ELSE IF t.pc = "start"
    THEN IF ~validate_time(t.start) \/ ~validate_time(t.end) \/ t.start = t.end
         THEN <<d, [t EXCEPT !.pc = "send_message"]>>
         ELSE <<ensure_user(d, t.user_id),
                [t EXCEPT !.pc = "select",
                          !.pending =
                              IF StrLess(t.start, t.end)
                              THEN <<[day |-> t.day, start |-> t.start, end |-> t.end]>>
                              ELSE <<[day |-> t.day, start |-> t.start, end |-> EndOfDay],
                                     [day |-> next_day(t.day), start |-> StartOfDay,
                                      end |-> t.end]>>]>>
    ELSE IF t.pc = "select"
    THEN LET Mine(r) == r.user_id = uid(t.user_id) /\ r.day = Head(t.pending).day
         IN  <<d, [t EXCEPT !.pc = "write", !.rows = SelectSeq(d.availability, Mine)]>>
    ELSE IF t.pc = "write"
    THEN LET slot   == Head(t.pending)
             acc    == MergeScan(t.rows, Positions(t.rows), 1,
                                 <<slot.start, slot.end, {}>>)
             gone   == {t.rows[i] : i \in acc[3]}
             Kept(r) == r \notin gone
         IN  <<[d EXCEPT !.availability =
                    Append(SelectSeq(@, Kept),
                           [user_id |-> uid(t.user_id), day |-> slot.day,
                            start_time |-> acc[1], end_time |-> acc[2]])],
               [t EXCEPT !.pc = IF Len(t.pending) > 1 THEN "select" ELSE "send_message",
                         !.pending = Tail(@), !.rows = <<>>]>>
    ELSE <<d, [t EXCEPT !.pc = "done"]>>

\* A handler that could be suspended after any of its steps.
RunOneStep(d, t) == HandlerStep(d, t)

RECURSIVE RunToAwait(_, _)
\* A handler scheduled by the event loop runs until its next await or its end.
RunToAwait(d, t) ==
    LET r == HandlerStep(d, t) IN
    IF r[2].pc \in AwaitPoints \cup {"done"} THEN r ELSE RunToAwait(r[1], r[2])

\* The event loop resumes handler t.
Run(t) ==
    /\ tasks[t].pc \notin {"idle", "done"}
    /\ LET r == RunToAwait(db, tasks[t]) IN
       /\ db' = r[1]
       /\ tasks' = [tasks EXCEPT ![t] = r[2]]
    /\ UNCHANGED <<last, base, client>>

(***************************************************************************)
(* The availability store under valid input                                *)
(***************************************************************************)

\* The user ids that make calls.
UserPool == {1}

\* A second user, whose slot is already stored when the calls start.
OtherUsers == {2}

\* The database after add_day_availability(2, "mon", "10:00", "22:00") on a
\* fresh one.
OtherUserDb ==
    add_day_availability(EmptyDb, 2, "mon",
                         strftime_HM(10, 0), strftime_HM(22, 0))[1]

\* The weekday keys passed in: sun wraps to mon, mon runs into tue.
DayPool == {"sun", "mon"}

\* The HH:MM strings passed in.
TimePool ==
    {strftime_HM(0, 0), strftime_HM(10, 0), strftime_HM(14, 0), strftime_HM(22, 0)}

\* The calls considered leave at most MaxRows rows in the availability table.
MaxRows == 2

Init ==
    /\ db \in {EmptyDb, OtherUserDb}
    /\ last = NoCall
    /\ tasks = NoTasks
    /\ base = EmptyDb
    /\ client = NoClient

Next ==
    \/ \E u \in UserPool, day \in DayPool, s \in TimePool, e \in TimePool :
          /\ Call_add_day_availability(u, day, s, e)
          /\ Len(db'.availability) <= MaxRows
    \/ \E u \in UserPool, day \in DayPool :
          Call_clear_day_availability(u, day)

Spec == Init /\ [][Next]_vars

(***************************************************************************)
(* Properties of the availability store                                    *)
(***************************************************************************)

\* Every user id that may own rows.
AllUsers == UserPool \cup OtherUsers

\* The slots of a user's day as get_availability lists them.
Slots(d, user_id, day) == get_availability(d, user_id)[day]

SlotSet(d, user_id, day) ==
    LET L == Slots(d, user_id, day) IN {L[i] : i \in 1..Len(L)}

\* The minute of the day an HH:MM string denotes ("24:00" is 1440).
MinuteOf(t) == ((t[1] - 48) * 10 + (t[2] - 48)) * 60 + (t[4] - 48) * 10 + (t[5] - 48)

\* The minutes probed for coverage: the first and the last minute of every hour.
ProbeMinutes == {h * 60 + m : h \in 0..23, m \in {0, 59}}

\* The probed minutes inside [start, end).
Range(start, end) == {m \in ProbeMinutes : MinuteOf(start) <= m /\ m < MinuteOf(end)}

\* The probed minutes covered by a set of slots.
Covered(slots) == UNION {Range(x.start, x.end) : x \in slots}

\* What merging the slot (s, e) into a set of slots is to yield: the slots
\* that overlap or touch (s, e) give way, with it, to one slot from the
\* least start to the greatest end; the others stay.
Touches(x, s, e) == StrLeq(x.start, e) /\ StrLeq(s, x.end)

MergedInto(slots, s, e) ==
    LET T      == {x \in slots : Touches(x, s, e)}
        starts == {x.start : x \in T} \cup {s}
        ends   == {x.end : x \in T} \cup {e}
        lo     == CHOOSE a \in starts : \A b \in starts : StrLeq(a, b)
        hi     == CHOOSE a \in ends : \A b \in ends : StrLeq(b, a)
    IN  (slots \ T) \cup {[start |-> lo, end |-> hi]}

\* The weekday that follows each weekday.
FollowingDay ==
    [mon |-> "tue", tue |-> "wed", wed |-> "thu", thu |-> "fri",
     fri |-> "sat", sat |-> "sun", sun |-> "mon"]

\* The last call was an accepted add_day_availability.
AddedOk(l) == l.op = "add_day_availability" /\ l.outcome = "ok"

\* C1: for every user and weekday, the list get_availability returns is
\* sorted by start ascending, and of any two of its slots the earlier one ends
\* strictly before the later one starts (no overlap, no shared boundary).
C1_SortedDisjoint ==
    \A u \in AllUsers, day \in DayKeySet :
        LET L == Slots(db, u, day) IN
        \A i, j \in 1..Len(L) :
            i < j => /\ StrLeq(L[i].start, L[j].start)
                     /\ StrLess(L[i].end, L[j].start)

\* C1 witness: after an accepted add, a user's day holds two slots whose
\* rowid order is the reverse of their start order, so that ORDER BY acts.
C1_Witness ==
    /\ AddedOk(last)
    /\ \E i, j \in 1..Len(db.availability) :
          /\ i < j
          /\ db.availability[i].user_id = db.availability[j].user_id
          /\ db.availability[i].day = db.availability[j].day
          /\ StrLess(db.availability[j].start_time, db.availability[i].start_time)

\* C2 (as claimed): every stored slot has start < end in string order, and
\* "24:00" occurs only as an end bound.
C2_StartBeforeEnd ==
    \A i \in 1..Len(db.availability) :
        /\ StrLess(db.availability[i].start_time, db.availability[i].end_time)
        /\ db.availability[i].start_time # EndOfDay

\* C3: an accepted add_day_availability(u, day, s, e) with s < e makes the
\* minutes covered on the day the former ones united with [s, e), replaces
\* the slots that overlap or touch (s, e), together with it, by one slot from
\* the least start to the greatest end, and keeps the other slots.
C3_AddNormalStep ==
    (AddedOk(last') /\ StrLess(last'.start, last'.end)) =>
        LET u   == last'.user_id
            day == last'.day
            old == SlotSet(db, u, day)
            new == SlotSet(db', u, day)
        IN  /\ Covered(new) = Covered(old) \cup Range(last'.start, last'.end)
            /\ new = MergedInto(old, last'.start, last'.end)
            /\ Len(Slots(db', u, day)) = Cardinality(new)

C3_AddNormal == [][C3_AddNormalStep]_vars

\* C3 witness: an accepted add with s < e whose slot was merged with stored
\* slots on both sides: the day holds a slot that starts before s and ends
\* after e.
C3_Witness ==
    /\ AddedOk(last)
    /\ StrLess(last.start, last.end)
    /\ \E x \in SlotSet(db, last.user_id, last.day) :
          StrLess(x.start, last.start) /\ StrLess(last.end, x.end)

\* C4: an accepted add_day_availability(u, day, s, e) with s > e merges
\* (s, "24:00") into the slots of day and ("00:00", e) into the slots of the
\* following weekday (mon after sun) and leaves the other days as they were;
\* on an empty schedule it leaves exactly those two slots.
C4_AddOvernightStep ==
    (AddedOk(last') /\ StrLess(last'.end, last'.start)) =>
        LET u    == last'.user_id
            day  == last'.day
            next == FollowingDay[day]
        IN  /\ SlotSet(db', u, day) = MergedInto(SlotSet(db, u, day), last'.start, EndOfDay)
            /\ SlotSet(db', u, next) = MergedInto(SlotSet(db, u, next), StartOfDay, last'.end)
            /\ \A other \in DayKeySet \ {day, next} :
                  Slots(db', u, other) = Slots(db, u, other)
            /\ (\A any \in DayKeySet : Slots(db, u, any) = <<>>) =>
                  /\ Slots(db', u, day) = <<[start |-> last'.start, end |-> EndOfDay]>>
                  /\ Slots(db', u, next) = <<[start |-> StartOfDay, end |-> last'.end]>>
                  /\ \A other \in DayKeySet \ {day, next} : Slots(db', u, other) = <<>>

C4_AddOvernight == [][C4_AddOvernightStep]_vars

\* C4 witness: an accepted overnight add on sun, whose second half is stored
\* on mon.
C4_Witness ==
    /\ AddedOk(last)
    /\ StrLess(last.end, last.start)
    /\ last.day = "sun"
    /\ \E x \in SlotSet(db, last.user_id, "mon") : x.start = StartOfDay

\* Adds only, on a database that starts empty.
InitOrder ==
    /\ db = EmptyDb
    /\ last = NoCall
    /\ tasks = NoTasks
    /\ base = EmptyDb
    /\ client = NoClient

NextOrder ==
    \E u \in UserPool, day \in DayPool, s \in TimePool, e \in TimePool :
        /\ Call_add_day_availability(u, day, s, e)
        /\ Len(db'.availability) <= MaxRows

SpecOrder == InitOrder /\ [][NextOrder]_vars

\* The second adds tried after each add: sun 22:00-10:00 and mon 22:00-14:00
\* (overnight), mon 14:00-00:00 (overnight, to midnight), mon 00:00-10:00,
\* mon 10:00-14:00 and sun 10:00-22:00.
SecondAdds ==
    {<<"sun", strftime_HM(22, 0), strftime_HM(10, 0)>>,
     <<"mon", strftime_HM(22, 0), strftime_HM(14, 0)>>,
     <<"mon", strftime_HM(14, 0), strftime_HM(0, 0)>>,
     <<"mon", strftime_HM(0, 0), strftime_HM(10, 0)>>,
     <<"mon", strftime_HM(10, 0), strftime_HM(14, 0)>>,
     <<"sun", strftime_HM(10, 0), strftime_HM(22, 0)>>}

\* C29: the schedule get_availability returns does not depend on the order
\* or the multiplicity of the adds: after an accepted add a on any database,
\* making a second add b (normal or overnight) of the same user gives the
\* same schedule as making b first and a second, and making a again changes
\* nothing.
C29_OrderFreeStep ==
    LET l == last' IN
    AddedOk(l) =>
        /\ \A b \in SecondAdds :
              get_availability(
                  add_day_availability(db', l.user_id, b[1], b[2], b[3])[1], l.user_id)
              = get_availability(
                    add_day_availability(
                        add_day_availability(db, l.user_id, b[1], b[2], b[3])[1],
                        l.user_id, l.day, l.start, l.end)[1],
                    l.user_id)
        /\ get_availability(
               add_day_availability(db', l.user_id, l.day, l.start, l.end)[1], l.user_id)
           = get_availability(db', l.user_id)

C29_OrderFree == [][C29_OrderFreeStep]_vars

\* C29 witness: mon 14:00-22:00 was added before mon 00:00-10:00, so the
\* rows are stored in the opposite order of their starts; the schedule lists
\* them by start.
C29_Witness ==
    /\ AddedOk(last)
    /\ db.availability =
          <<[user_id |-> uid(last.user_id), day |-> "mon",
             start_time |-> strftime_HM(14, 0), end_time |-> strftime_HM(22, 0)],
            [user_id |-> uid(last.user_id), day |-> "mon",
             start_time |-> strftime_HM(0, 0), end_time |-> strftime_HM(10, 0)]>>
    /\ Slots(db, last.user_id, "mon") =
          <<[start |-> strftime_HM(0, 0), end |-> strftime_HM(10, 0)],
            [start |-> strftime_HM(14, 0), end |-> strftime_HM(22, 0)]>>

(***************************************************************************)
(* The availability store under any input                                  *)
(***************************************************************************)

\* The strings that are not weekday keys.
BadDayPool == {"xyz"}

\* The well-formed times passed to the Database directly.
DirectTimePool == {strftime_HM(10, 0), strftime_HM(14, 0)}

\* The time strings typed into the command: "10:00", "9:00", "25:00" and
\* "1000".
RawTimePool ==
    {strftime_HM(10, 0), <<Digit(9), 58, Digit(0), Digit(0)>>,
     strftime_HM(25, 0), <<Digit(1), Digit(0), Digit(0), Digit(0)>>}

\* Calls made on the Database directly (well-formed times, any day key and
\* start = end included) and through the set-availability command (any time
\* strings).
NextRaw ==
    \/ \E u \in UserPool, day \in DayPool \cup BadDayPool,
          s \in DirectTimePool, e \in DirectTimePool :
          /\ Call_add_day_availability(u, day, s, e)
          /\ Len(db'.availability) <= MaxRows
    \/ \E u \in UserPool, day \in DayPool \cup BadDayPool :
          Call_clear_day_availability(u, day)
    \/ \E u \in UserPool, day \in DayPool, s \in RawTimePool, e \in RawTimePool :
          /\ Handle_set_availability(u, day, s, e)
          /\ Len(db'.availability) <= MaxRows

SpecRaw == Init /\ [][NextRaw]_vars

\* A string of the form HH:MM with HH in 00..23 and MM in 00..59.
IsHHMM(t) ==
    /\ Len(t) = 5
    /\ t[3] = 58
    /\ AllDigits(SubSeq(t, 1, 2)) /\ AllDigits(SubSeq(t, 4, 5))
    /\ DigitsValue(SubSeq(t, 1, 2)) <= 23
    /\ DigitsValue(SubSeq(t, 4, 5)) <= 59

\* C6 (as claimed): an add_day_availability call with an invalid weekday key,
\* with start = end or with a time string that is not valid HH:MM, and a
\* clear_day_availability call with an invalid weekday key, raises an error
\* and leaves the whole database unchanged.
C6_InvalidRejectedStep ==
    LET l == last' IN
    (\/ /\ l.op = "add_day_availability"
        /\ \/ l.day \notin DayKeySet
           \/ l.start = l.end
           \/ ~IsHHMM(l.start)
           \/ ~IsHHMM(l.end)
     \/ /\ l.op = "clear_day_availability"
        /\ l.day \notin DayKeySet)
    => (l.outcome = "ValueError" /\ db' = db)

C6_InvalidRejected == [][C6_InvalidRejectedStep]_vars

(***************************************************************************)
(* Matchmaking: an invoker and two candidates                              *)
(***************************************************************************)

\* The invoker of find_ready_players.
Invokers == {1}

\* The other users; as TEXT, "10" sorts before "2".
Candidates == {2, 10}

MatchUsers == Invokers \cup Candidates

\* Game names: "A", "a " and "B".
GameA == <<65>>

GameALowerSpace == <<97, 32>>

GameB == <<66>>

\* The games the candidates add.
CandidateGames == (Candidates \X {GameB}) \cup {<<2, GameALowerSpace>>}

\* The timezones set.
CandidateZones == ({2} \X {"UTC", "US/Eastern"}) \cup {<<10, "UTC">>, <<1, "UTC">>}

\* The slot every user may add: thu 18:00-22:00.
SlotDay == "thu"

SlotStart == strftime_HM(18, 0)

SlotEnd == strftime_HM(22, 0)

\* UTC instants: Thu 18:00, Thu 21:59, Thu 22:00, Fri 01:00 (Thu 20:00
\* US/Eastern) and Fri 03:00 (Thu 22:00 US/Eastern).
NowPool ==
    {[weekday |-> 3, minute |-> 18 * 60], [weekday |-> 3, minute |-> 21 * 60 + 59],
     [weekday |-> 3, minute |-> 22 * 60], [weekday |-> 4, minute |-> 60],
     [weekday |-> 4, minute |-> 3 * 60]}

\* game_filter: None, "a" and " ".
FilterPool == {<<>>, <<<<97>>>>, <<<<32>>>>}

\* The invoker has added the games "A" and "B".
InvokerDb == add_game(add_game(EmptyDb, 1, GameA), 1, GameB)

InitMatch ==
    /\ db = InvokerDb
    /\ last = NoCall
    /\ tasks = NoTasks
    /\ base = EmptyDb
    /\ client = NoClient

NextMatch ==
    \/ \E g \in CandidateGames : Call_add_game(g[1], g[2])
    \/ \E z \in CandidateZones : Call_set_timezone(z[1], z[2])
    \/ \E u \in MatchUsers : Call_add_day_availability(u, SlotDay, SlotStart, SlotEnd)
    \/ \E now \in NowPool, f \in FilterPool : \E u \in Invokers :
          Call_find_ready_players(u, now, f)

SpecMatch == InitMatch /\ [][NextMatch]_vars

(***************************************************************************)
(* Properties of matchmaking                                               *)
(***************************************************************************)

\* The weekday key of each datetime.weekday() value.
WeekdayKey ==
    (0 :> "mon") @@ (1 :> "tue") @@ (2 :> "wed") @@ (3 :> "thu") @@
    (4 :> "fri") @@ (5 :> "sat") @@ (6 :> "sun")

\* The local weekday and minute of a UTC instant in a zone, counted in
\* minutes since the start of the week.
LocalTime(now_utc, tz_name) ==
    LET since == now_utc.weekday * 1440 + now_utc.minute + ZoneOffset[tz_name]
    IN  [weekday |-> (since \div 1440) % 7, minute |-> since % 1440]

\* The user has a timezone and, at the local weekday and minute of the
\* instant, is inside one of the slots of that day: start <= t < end.
IsAvailableAt(d, user_id, now_utc) ==
    \E r \in d.users :
        /\ r.user_id = uid(user_id)
        /\ r.timezone # NULL
        /\ LET loc == LocalTime(now_utc, r.timezone) IN
           \E x \in SlotSet(d, user_id, WeekdayKey[loc.weekday]) :
              MinuteOf(x.start) <= loc.minute /\ loc.minute < MinuteOf(x.end)

\* The normalized names of the games of a user.
GameKeys(d, user_id) ==
    {normalize_game_name(d.games[i].game_name) :
        i \in {j \in 1..Len(d.games) : d.games[j].user_id = uid(user_id)}}

\* The user ids listed in a result of find_ready_players.
ResultIds(out) == {out[i][1] : i \in 1..Len(out)}

Found(l) == l.op = "find_ready_players"

\* Fri 01:00 UTC, which is Thu 20:00 US/Eastern.
FridayOneUtc == [weekday |-> 4, minute |-> 60]

\* C7: a user is in the available set at a UTC instant iff the user has a
\* timezone and some slot of the user's local weekday has start <= t < end
\* for the local time t; in particular a US/Eastern user with the slot thu
\* 18:00-22:00 is available at Fri 01:00 UTC.
C7_Available ==
    /\ \A u \in MatchUsers, now \in NowPool :
          (u \in available_user_ids(db, now)) <=> IsAvailableAt(db, u, now)
    /\ \A u \in MatchUsers :
          ( /\ [user_id |-> uid(u), timezone |-> "US/Eastern"] \in db.users
            /\ [start |-> SlotStart, end |-> SlotEnd] \in SlotSet(db, u, "thu") )
          => u \in available_user_ids(db, FridayOneUtc)

\* C7 witness: find_ready_players at Fri 01:00 UTC has returned user 2, whose
\* timezone is US/Eastern and who has no slot on fri.
C7_Witness ==
    /\ Found(last)
    /\ last.now = FridayOneUtc
    /\ 2 \in ResultIds(last.out)
    /\ [user_id |-> uid(2), timezone |-> "US/Eastern"] \in db.users
    /\ SlotSet(db, 2, "fri") = {}

\* C8: find_ready_players(invoker, now) without a filter returns exactly the
\* users other than the invoker who are available at now and share a
\* normalized game name with the invoker.
C8_ReadyPlayers ==
    (Found(last) /\ last.game = <<>>) =>
        ResultIds(last.out) =
            {c \in MatchUsers :
                /\ c # last.user_id
                /\ IsAvailableAt(db, c, last.now)
                /\ GameKeys(db, c) \cap GameKeys(db, last.user_id) # {}}

\* C8 witness: a call without a filter has returned a user while the invoker
\* has no timezone.
C8_Witness ==
    /\ Found(last)
    /\ last.game = <<>>
    /\ last.out # <<>>
    /\ \A r \in db.users : r.user_id = uid(last.user_id) => r.timezone = NULL

\* C9: the list find_ready_players returns is strictly ascending by numeric
\* user id.
C9_AscendingIds ==
    Found(last) =>
        \A i, j \in 1..Len(last.out) : i < j => last.out[i][1] < last.out[j][1]

\* C9 witness: a call has returned the users 2 and 10, whose id strings sort
\* the other way.
C9_Witness ==
    /\ Found(last)
    /\ ResultIds(last.out) = {2, 10}
    /\ StrLess(uid(10), uid(2))

\* C10 (as claimed): when find_ready_players is called with a filter string,
\* every game listed normalizes to the normalized filter, and an available
\* user who does not share the filter's game with the invoker is omitted.
C10_FilterApplied ==
    (Found(last) /\ last.game # <<>>) =>
        LET key == normalize_game_name(last.game[1]) IN
        /\ \A i \in 1..Len(last.out) : \A k \in 1..Len(last.out[i][2]) :
              normalize_game_name(last.out[i][2][k]) = key
        /\ \A c \in MatchUsers :
              key \notin (GameKeys(db, c) \cap GameKeys(db, last.user_id))
              => c \notin ResultIds(last.out)

\* C27: for every user c that find_ready_players(invoker, now) returns
\* without a filter, the games listed for c are get_common_games(invoker, c)
\* on the same database: the same entries in the invoker's insertion order
\* and spellings.
C27_SameAsCommonGames ==
    (Found(last) /\ last.game = <<>>) =>
        \A i \in 1..Len(last.out) :
            last.out[i][2] = get_common_games(db, last.user_id, last.out[i][1])

\* C27 witness: a call without a filter has returned user 2 with the games
\* "A" and "B", which user 2 added as "B" and then "a ".
C27_Witness ==
    /\ Found(last)
    /\ last.game = <<>>
    /\ \E i \in 1..Len(last.out) : last.out[i] = <<2, <<GameA, GameB>>>>
    /\ list_games(db, 2) = <<GameB, GameALowerSpace>>

(***************************************************************************)
(* Concurrent handlers of one user                                         *)
(***************************************************************************)

\* The weekday the concurrent commands are about.
TaskDayPool == {"mon"}

\* The commands a handler may be dispatched with.
TaskCommands ==
    {Started("set_availability", u, day, s, e) :
        u \in UserPool, day \in TaskDayPool, s \in TimePool, e \in TimePool}
    \cup {Started("clear_availability", u, day, <<>>, <<>>) :
             u \in UserPool, day \in TaskDayPool}

InitTasks ==
    /\ db = EmptyDb
    /\ last = NoCall
    /\ tasks = NoTasks
    /\ base = EmptyDb
    /\ client = NoClient

\* Once the handlers in flight have ended, the next commands arrive and a
\* handler is dispatched for each before any of them runs.  (A handler that
\* arrives while another is suspended at its reply is the case in which the
\* other one was scheduled first.)
DispatchBatch ==
    /\ \A t \in TaskIds : tasks[t].pc \in {"idle", "done"}
    /\ Len(db.availability) <= MaxRows
    /\ tasks' \in [TaskIds -> TaskCommands]
    /\ base' = db
    /\ UNCHANGED <<db, last, client>>

NextTasks ==
    \/ DispatchBatch
    \/ \E t \in TaskIds : Run(t)

SpecTasks == InitTasks /\ [][NextTasks]_vars

\* The handlers whose store operation has been made.
Applied == {t \in TaskIds : tasks[t].pc \in {"send_message", "done"}}

\* The database after the store operation of a command, made as one call.
ApplyCommand(d, t) ==
    IF t.cmd = "clear_availability"
    THEN clear_day_availability(d, t.user_id, t.day)[1]
    ELSE add_day_availability(d, t.user_id, t.day, t.start, t.end)[1]

RECURSIVE ApplyInOrder(_, _)
ApplyInOrder(d, order) ==
    IF order = <<>> THEN d
    ELSE ApplyInOrder(ApplyCommand(d, tasks[Head(order)]), Tail(order))

\* The orders in which a set of handlers can be arranged.
Orders(S) ==
    {o \in [1..Cardinality(S) -> S] : \A i, j \in 1..Cardinality(S) : o[i] = o[j] => i = j}

\* C5: under every interleaving of two concurrently dispatched set-availability
\* / clear-availability handlers of the same user and day, the database is at
\* all times the result of making the store operations made so far one after
\* the other in some order, starting from the database at dispatch; no slot
\* added is lost unless a clear was among them, and the slots of every day
\* stay disjoint and non-adjacent.
C5_SerialOrder ==
    /\ db \in {ApplyInOrder(base, o) : o \in Orders(Applied)}
    /\ (\A t \in Applied : tasks[t].cmd = "set_availability") =>
          \A t \in Applied :
             StrLess(tasks[t].start, tasks[t].end) =>
                Range(tasks[t].start, tasks[t].end)
                   \subseteq Covered(SlotSet(db, tasks[t].user_id, tasks[t].day))
    /\ \A u \in UserPool, day \in DayKeySet :
          LET L == Slots(db, u, day) IN
          \A i, j \in 1..Len(L) : i < j => StrLess(L[i].end, L[j].start)

\* C5 witness: two handlers of the same user and day are both suspended at
\* their replies, having added two different slots that touch or overlap, and
\* the day holds one slot that covers both.
C5_Witness ==
    /\ \A t \in TaskIds :
          /\ tasks[t].pc = "send_message"
          /\ tasks[t].cmd = "set_availability"
          /\ StrLess(tasks[t].start, tasks[t].end)
    /\ tasks[1].user_id = tasks[2].user_id
    /\ tasks[1].day = tasks[2].day
    /\ tasks[1].start # tasks[2].start
    /\ tasks[1].end # tasks[2].end
    /\ \E x \in SlotSet(db, tasks[1].user_id, tasks[1].day) :
          \A t \in TaskIds :
             StrLeq(x.start, tasks[t].start) /\ StrLeq(tasks[t].end, x.end)

(***************************************************************************)
(* The game lists                                                          *)
(***************************************************************************)

\* The users that keep game lists.
GameUsers == {1, 2}

\* The names given: "A" and "a " have the same normalized name.
GameNames == {GameA, GameALowerSpace, GameB}

NextGames ==
    \/ \E u \in GameUsers, g \in GameNames : Call_add_game(u, g)
    \/ \E u \in GameUsers, g \in GameNames : Call_remove_game(u, g)
    \/ \E u \in GameUsers : Call_list_games(u)
    \/ \E a \in GameUsers, b \in GameUsers : Call_get_common_games(a, b)
    \/ Call_all_game_names

InitGames ==
    /\ db = EmptyDb
    /\ last = NoCall
    /\ tasks = NoTasks
    /\ base = EmptyDb
    /\ client = NoClient

SpecGames == InitGames /\ [][NextGames]_vars

\* The normalized names of a list of game names, in the list's order.
KeysOf(names) == [i \in 1..Len(names) |-> normalize_game_name(names[i])]

KeySet(names) == {normalize_game_name(names[i]) : i \in 1..Len(names)}

\* C11: each user's game list holds at most one entry per normalized name.
C11_OnePerKey ==
    \A u \in GameUsers :
        LET L == list_games(db, u) IN
        \A i, j \in 1..Len(L) :
            normalize_game_name(L[i]) = normalize_game_name(L[j]) => i = j

\* C11 witness: add_game(1, "a ") was called when user 1 already had a game
\* of that normalized name (the game "B" was added after it), and user 1 has
\* one such game.
C11_Witness ==
    /\ last.op = "add_game"
    /\ last.user_id = 1
    /\ last.game = <<GameALowerSpace>>
    /\ list_games(db, 1) = <<GameALowerSpace, GameB>>

\* C12: add_game(u, name) replaces the spelling of u's entry of the same
\* normalized name, which keeps its place in list_games(u), and appends name
\* if there is no such entry.
C12_UpsertStep ==
    (last'.op = "add_game") =>
        LET u    == last'.user_id
            name == last'.game[1]
            old  == list_games(db, u)
            new  == list_games(db', u)
            at   == {i \in 1..Len(old) :
                        normalize_game_name(old[i]) = normalize_game_name(name)}
        IN  IF at = {}
            THEN new = Append(old, name)
            ELSE new = [i \in 1..Len(old) |-> IF i \in at THEN name ELSE old[i]]

C12_Upsert == [][C12_UpsertStep]_vars

\* C12 witness: add_game(2, "A") was called when user 2 already had a game
\* of that normalized name, and the game is still listed before "B".
C12_Witness ==
    /\ last.op = "add_game"
    /\ last.user_id = 2
    /\ last.game = <<GameA>>
    /\ list_games(db, 2) = <<GameA, GameB>>

\* C13: remove_game(u, name) returns true iff u had a game of the normalized
\* name of name; then exactly that entry is removed; the other games of u,
\* their order, and the games of the other users are unchanged.
C13_RemoveStep ==
    (last'.op = "remove_game") =>
        LET u    == last'.user_id
            key  == normalize_game_name(last'.game[1])
            old  == list_games(db, u)
            new  == list_games(db', u)
            Other(name) == normalize_game_name(name) # key
        IN  /\ last'.out[1] = (key \in KeySet(old))
            /\ new = SelectSeq(old, Other)
            /\ Len(new) = Len(old) - (IF key \in KeySet(old) THEN 1 ELSE 0)
            /\ \A v \in GameUsers \ {u} : list_games(db', v) = list_games(db, v)

C13_Remove == [][C13_RemoveStep]_vars

\* C13 witness: remove_game(1, "a ") has returned true and left user 1 with
\* "B", while user 2 still has the game "A".
C13_Witness ==
    /\ last.op = "remove_game"
    /\ last.user_id = 1
    /\ last.game = <<GameALowerSpace>>
    /\ last.out = <<TRUE>>
    /\ list_games(db, 1) = <<GameB>>
    /\ list_games(db, 2) = <<GameB, GameA>>

\* C14: get_common_games(a, b) returns the games of a whose normalized name
\* is the normalized name of a game of b, each once, in the order of a's
\* list and in a's spelling.
C14_CommonGames ==
    (last.op = "get_common_games") =>
        LET Shared(name) == normalize_game_name(name) \in KeySet(list_games(db, last.other))
        IN  last.out = SelectSeq(list_games(db, last.user_id), Shared)

\* C14 witness: a call for two different users has returned two games, in an
\* order and a spelling that are not those of the second user.
C14_Witness ==
    /\ last.op = "get_common_games"
    /\ last.user_id # last.other
    /\ Len(last.out) = 2
    /\ KeysOf(last.out) # KeysOf(list_games(db, last.other))
    /\ \E i \in 1..2 : \A j \in 1..Len(list_games(db, last.other)) :
          last.out[i] # list_games(db, last.other)[j]

\* C15: the normalized names of get_common_games(a, b) are those of
\* get_common_games(b, a).
C15_Symmetric ==
    \A a \in GameUsers, b \in GameUsers :
        KeySet(get_common_games(db, a, b)) = KeySet(get_common_games(db, b, a))

\* C15 witness: get_common_games(a, b) has returned a game, and
\* get_common_games(b, a) is a different list.
C15_Witness ==
    /\ last.op = "get_common_games"
    /\ last.out # <<>>
    /\ last.out # get_common_games(db, last.other, last.user_id)
    /\ Len(list_games(db, last.user_id)) > Len(last.out)

\* C16 (as claimed): all_game_names returns a list in ascending order that
\* holds exactly one name for each normalized name held by any user.
C16_OnePerKey ==
    (last.op = "all_game_names") =>
        /\ \A i, j \in 1..Len(last.out) : i < j => StrLess(last.out[i], last.out[j])
        /\ \A i, j \in 1..Len(last.out) :
              normalize_game_name(last.out[i]) = normalize_game_name(last.out[j])
              => i = j
        /\ KeySet(last.out) = UNION {KeySet(list_games(db, u)) : u \in GameUsers}

(***************************************************************************)
(* Clearing a day                                                          *)
(***************************************************************************)

\* C18: clear_day_availability(u, day) with a weekday key does not fail and
\* leaves the day empty for u; it leaves the other days of u, the slots of
\* every other user and the user records as they were; on an empty day (a
\* second call, a user with no record) it changes nothing.
C18_ClearStep ==
    (last'.op = "clear_day_availability" /\ last'.day \in DayKeySet) =>
        LET u   == last'.user_id
            day == last'.day
            Kept(r) == ~(r.user_id = uid(u) /\ r.day = day)
        IN  /\ last'.outcome = "ok"
            /\ Slots(db', u, day) = <<>>
            /\ \A other \in DayKeySet \ {day} : Slots(db', u, other) = Slots(db, u, other)
            /\ \A v \in AllUsers \ {u}, any \in DayKeySet :
                  Slots(db', v, any) = Slots(db, v, any)
            /\ db'.availability = SelectSeq(db.availability, Kept)
            /\ db'.users = db.users /\ db'.games = db.games
            /\ (Slots(db, u, day) = <<>>) => (db' = db)
            /\ clear_day_availability(db', u, day) = <<db', "ok">>

C18_Clear == [][C18_ClearStep]_vars

\* C18 witness: sun has been cleared for user 1, whose mon still holds a slot
\* from 00:00 (the second half of an overnight slot added on sun), while user
\* 2 still has a slot.
C18_Witness ==
    /\ last.op = "clear_day_availability"
    /\ last.user_id = 1
    /\ last.day = "sun"
    /\ last.outcome = "ok"
    /\ Slots(db, 1, "sun") = <<>>
    /\ \E x \in SlotSet(db, 1, "mon") : x.start = StartOfDay /\ x.end # StartOfDay
    /\ SlotSet(db, 2, "mon") # {}

(***************************************************************************)
(* User records and queries                                                *)
(***************************************************************************)

StoreUsers == {1, 2}

\* The timezones set: user 1 sets one and then the other.
StoreZones == {<<1, "UTC">>, <<1, "US/Eastern">>, <<2, "UTC">>}

\* The slots added on thu: 18:00-19:00 and 21:00-22:00 by user 2, and
\* 18:00-18:00, which is refused, by user 1.
StoreSlots ==
    {<<2, strftime_HM(18, 0), strftime_HM(19, 0)>>,
     <<2, strftime_HM(21, 0), strftime_HM(22, 0)>>,
     <<1, strftime_HM(18, 0), strftime_HM(18, 0)>>}

\* Thu 18:00 UTC.
StoreNow == [weekday |-> 3, minute |-> 18 * 60]

InitStore ==
    /\ db = EmptyDb
    /\ last = NoCall
    /\ tasks = NoTasks
    /\ base = EmptyDb
    /\ client = NoClient

NextStore ==
    \/ \E u \in StoreUsers : Call_add_game(u, GameA)
    \/ \E u \in StoreUsers : Call_remove_game(u, GameA)
    \/ \E z \in StoreZones : Call_set_timezone(z[1], z[2])
    \/ \E x \in StoreSlots : Call_add_day_availability(x[1], SlotDay, x[2], x[3])
    \/ \E u \in StoreUsers : Call_clear_day_availability(u, SlotDay)
    \/ \E u \in StoreUsers : Call_list_games(u)
    \/ \E a \in StoreUsers, b \in StoreUsers : Call_get_common_games(a, b)
    \/ \E u \in StoreUsers : Call_get_timezone(u)
    \/ \E u \in StoreUsers : Call_get_availability(u)
    \/ \E u \in StoreUsers : Call_find_ready_players(u, StoreNow, <<>>)
    \/ Call_user_count

SpecStore == InitStore /\ [][NextStore]_vars

\* The user has no record.
NoRecord(d, user_id) == \A r \in d.users : r.user_id # uid(user_id)

\* The rows of a user's day in the availability table.
StoredSlots(d, user_id, day) ==
    LET Mine(r) == r.user_id = uid(user_id) /\ r.day = day
        rows    == SelectSeq(d.availability, Mine)
    IN  [i \in 1..Len(rows) |-> [start |-> rows[i].start_time, end |-> rows[i].end_time]]

\* C17: get_availability(u) returns a map with exactly the keys mon..sun,
\* each mapped to the stored slots of the day in ascending start order (all
\* empty for a user with no record), and leaves the database as it was.
C17_GetStep ==
    (last'.op = "get_availability") =>
        LET u   == last'.user_id
            map == last'.out[1]
        IN  /\ db' = db
            /\ DOMAIN map = {"mon", "tue", "wed", "thu", "fri", "sat", "sun"}
            /\ \A day \in DOMAIN map :
                  LET stored == StoredSlots(db, u, day) IN
                  /\ Len(map[day]) = Len(stored)
                  /\ {map[day][i] : i \in 1..Len(map[day])}
                        = {stored[i] : i \in 1..Len(stored)}
                  /\ \A i, j \in 1..Len(map[day]) :
                        i < j => StrLeq(map[day][i].start, map[day][j].start)
            /\ NoRecord(db, u) => \A day \in DOMAIN map : map[day] = <<>>

C17_Get == [][C17_GetStep]_vars

\* C17 witness: get_availability(2) has returned two slots for thu, which
\* are stored in the opposite order.
C17_Witness ==
    /\ last.op = "get_availability"
    /\ last.user_id = 2
    /\ Len(last.out[1]["thu"]) = 2
    /\ StrLess(StoredSlots(db, 2, "thu")[2].start, StoredSlots(db, 2, "thu")[1].start)

\* The call creates the caller's record if there is none.
Creating(l) ==
    \/ l.op \in {"add_game", "set_timezone"}
    \/ l.op = "add_day_availability" /\ l.outcome = "ok"

\* C19: a call adds the caller's record iff it is a successful add_game,
\* set_timezone or add_day_availability and the record is not there yet; no
\* other call adds a record and none removes one, and user_count is the
\* number of distinct user ids with a record.
C19_RecordsStep ==
    /\ UserKeys(db') =
          IF Creating(last') THEN UserKeys(db) \cup {uid(last'.user_id)} ELSE UserKeys(db)
    /\ user_count(db') = Cardinality(UserKeys(db'))
    /\ user_count(db') >= user_count(db)
    /\ (last'.op = "user_count") => last'.out = <<Cardinality(UserKeys(db))>>

C19_Records == [][C19_RecordsStep]_vars

\* C19 witness: user 1, who has a game and a timezone, has called
\* set_timezone again, and there are two records.
C19_Witness ==
    /\ last.op = "set_timezone"
    /\ last.user_id = 1
    /\ last.tz = "US/Eastern"
    /\ list_games(db, 1) # <<>>
    /\ user_count(db) = 2

\* C20: for a user with no record list_games, get_common_games and
\* find_ready_players return the empty list, get_timezone returns None and
\* remove_game returns false; get_timezone returns None for a user with a
\* record and no timezone, and the value of the user's latest set_timezone
\* otherwise.
C20_AbsentStep ==
    /\ (last'.op \in {"list_games", "find_ready_players"} /\ NoRecord(db, last'.user_id))
          => last'.out = <<>>
    /\ (last'.op = "get_common_games"
          /\ (NoRecord(db, last'.user_id) \/ NoRecord(db, last'.other)))
          => last'.out = <<>>
    /\ (last'.op = "remove_game" /\ NoRecord(db, last'.user_id))
          => last'.out = <<FALSE>>
    /\ (last'.op = "get_timezone") =>
          /\ last'.outcome = "ok"
          /\ NoRecord(db, last'.user_id) => last'.out = <<NULL>>
          /\ \A r \in db.users :
                r.user_id = uid(last'.user_id) => last'.out = <<r.timezone>>
    /\ \A u \in StoreUsers :
          IF last'.op = "set_timezone" /\ last'.user_id = u
          THEN get_timezone(db', u) = last'.tz
          ELSE get_timezone(db', u) = get_timezone(db, u)

C20_Absent == [][C20_AbsentStep]_vars

\* C20 witness: user 1, who has no record, has called find_ready_players
\* while user 2, who has a game, is available, and got the empty list.
C20_Witness ==
    /\ last.op = "find_ready_players"
    /\ last.user_id = 1
    /\ NoRecord(db, 1)
    /\ last.out = <<>>
    /\ 2 \in available_user_ids(db, last.now)
    /\ list_games(db, 2) # <<>>

(***************************************************************************)
(* Opening a database file                                                 *)
(*                                                                         *)
(* Here db is the database file with the row of schema_version as the      *)
(* field version (0 when the table has no row).                            *)
(***************************************************************************)

\* _MIGRATIONS: the scripts v1, v2, v3.
MIGRATIONS == <<"v1", "v2", "v3">>

\* executescript(sql) for a script of _MIGRATIONS:
\*   v1  CREATE TABLE IF NOT EXISTS users / games
\*   v2  DROP TABLE IF EXISTS availability; CREATE TABLE availability
\*   v3  CREATE INDEX IF NOT EXISTS
executescript(d, sql) ==
    IF sql = "v2" THEN [d EXCEPT !.availability = <<>>] ELSE d

RECURSIVE ApplyMigrations(_, _)
\* for i, sql in enumerate(_MIGRATIONS[current:], start=current)
ApplyMigrations(d, current) ==
    IF current >= Len(MIGRATIONS) THEN d
    ELSE ApplyMigrations(executescript(d, MIGRATIONS[current + 1]), current + 1)

\* Database._migrate
migrate(d) ==
    LET current     == d.version
        new_version == Len(MIGRATIONS)
        d1          == ApplyMigrations(d, current)
    IN  IF current = 0 THEN [d1 EXCEPT !.version = new_version]
        ELSE IF new_version > current THEN [d1 EXCEPT !.version = new_version]
        ELSE d1

\* Database.__init__ on the file.
Open ==
    /\ db' = migrate(db)
    /\ last' = [NoCall EXCEPT !.op = "open", !.outcome = "ok"]
    /\ UNCHANGED <<tasks, base, client>>

\* A file that does not exist yet.
FreshFile == [version |-> 0, users |-> {}, games |-> <<>>, availability |-> <<>>]

\* The rows a version 1 file may hold in its one-slot-per-weekday
\* availability table.
OldRows ==
    { <<>>,
      <<[user_id |-> uid(1), day |-> "mon",
         start_time |-> strftime_HM(10, 0), end_time |-> strftime_HM(22, 0)]>>,
      <<[user_id |-> uid(1), day |-> "mon",
         start_time |-> strftime_HM(10, 0), end_time |-> strftime_HM(22, 0)],
        [user_id |-> uid(2), day |-> "sun",
         start_time |-> strftime_HM(14, 0), end_time |-> strftime_HM(22, 0)]>> }

\* Files written at schema version 1: users 1 and 2, user 1 with a timezone
\* and a game.
OldFiles ==
    {[version |-> 1,
      users |-> {[user_id |-> uid(1), timezone |-> "UTC"],
                 [user_id |-> uid(2), timezone |-> NULL]},
      games |-> <<[user_id |-> uid(1), game_name |-> GameA,
                   normalized |-> normalize_game_name(GameA)]>>,
      availability |-> rows] : rows \in OldRows}

InitOpen ==
    /\ db \in OldFiles \cup {FreshFile}
    /\ last = NoCall
    /\ tasks = NoTasks
    /\ base = EmptyDb
    /\ client = NoClient

\* The file is opened, and once it is at the current version calls are made
\* and it is opened again.
NextOpen ==
    \/ Open
    \/ \E u \in UserPool, day \in DayPool, s \in TimePool, e \in TimePool :
          /\ db.version = Len(MIGRATIONS)
          /\ Call_add_day_availability(u, day, s, e)
          /\ Len(db'.availability) <= MaxRows
    \/ \E u \in UserPool, day \in DayPool :
          /\ db.version = Len(MIGRATIONS)
          /\ Call_clear_day_availability(u, day)

SpecOpen == InitOpen /\ [][NextOpen]_vars

\* C21 (as claimed): opening a version 1 file leaves every (user, day) that
\* had a slot with exactly that slot, and users, timezones and games as they
\* were; opening a file at the current version changes nothing.
C21_MigrationStep ==
    (last'.op = "open") =>
        /\ (db.version = 1) =>
              /\ \A u \in AllUsers, day \in DayKeySet :
                    StoredSlots(db, u, day) # <<>>
                    => StoredSlots(db', u, day) = StoredSlots(db, u, day)
              /\ db'.users = db.users
              /\ db'.games = db.games
        /\ (db.version = Len(MIGRATIONS)) => (db' = db)

C21_Migration == [][C21_MigrationStep]_vars

(***************************************************************************)
(* The JSON-state bot                                                      *)
(*                                                                         *)
(* client.file is state.json: its kind and, when it is a well-formed state, *)
(* the users it holds.  client.state is WheatleyClient.state: each user key *)
(* mapped to whether the user has an "availability" dict and to that dict,  *)
(* weekday key to list.  The {"start", "end"} dicts are objects: a list     *)
(* holds references to cells of client.heap, so that two lists can hold the *)
(* same dict.  client.ret is the dict get_availability_from_state returned  *)
(* last, held by its caller.                                                *)
(***************************************************************************)

\* The cells of the heap.
HeapSize == 3

FreeCell == [start |-> <<>>, end |-> <<>>]

EmptyHeap == [r \in 1..HeapSize |-> FreeCell]

\* _empty_availability() as a dict of lists of references.
empty_availability == [day \in DayKeySet |-> <<>>]

\* The references held by a dict of lists.
RefsOf(lists) == UNION {{lists[day][i] : i \in 1..Len(lists[day])} : day \in DOMAIN lists}

\* The references in use: reachable from the state or from the returned dict.
UsedRefs(c) ==
    RefsOf(c.ret) \cup UNION {RefsOf(c.state[k].days) : k \in DOMAIN c.state}

\* A new object takes a cell that nothing refers to.
NewRef(c) == CHOOSE r \in 1..HeapSize : r \notin UsedRefs(c) /\ \A q \in 1..(r - 1) : q \in UsedRefs(c)

HasRoom(c) == \E r \in 1..HeapSize : r \notin UsedRefs(c)

\* A dict that nothing refers to any more is freed.
Collect(c) ==
    [c EXCEPT !.heap = [r \in DOMAIN c.heap |->
                          IF r \in UsedRefs(c) THEN c.heap[r] ELSE FreeCell]]

\* The value of a dict of lists: every reference replaced by the dict it
\* refers to.
ValueOf(heap, lists) ==
    [day \in DOMAIN lists |-> [i \in 1..Len(lists[day]) |-> heap[lists[day][i]]]]

\* The value of the state, as json.dump writes it.
StateValue(c) ==
    [k \in DOMAIN c.state |->
        [has |-> c.state[k].has, days |-> ValueOf(c.heap, c.state[k].days)]]

\* load_state: <<what happens, the users of the dict returned>>.  A file
\* that is missing, is not JSON, is not a dict, has no "users" or whose
\* "users" is not a dict gives {"users": {}}; any other failure to open the
\* file is raised.
load_state(file) ==
    IF file.kind = "unreadable" THEN <<"OSError", <<>>>>
    ELSE IF file.kind = "ok" THEN <<"ok", file.users>>
    ELSE <<"ok", <<>>>>

\* The objects json.load builds for the users of a file.
Loaded(users) ==
    LET cells == {x \in (DOMAIN users) \X DayKeySet \X {1} :
                     x[2] \in DOMAIN users[x[1]].days /\ Len(users[x[1]].days[x[2]]) = 1}
        n     == Cardinality(cells)
        at    == CHOOSE f \in [1..n -> cells] : \A a, b \in 1..n : f[a] = f[b] => a = b
        RefAt(k, day) == CHOOSE r \in 1..n : at[r] = <<k, day, 1>>
    IN  [heap  |-> [r \in 1..HeapSize |->
                      IF r <= n THEN users[at[r][1]].days[at[r][2]][1] ELSE FreeCell],
         state |-> [k \in DOMAIN users |->
                      [has  |-> users[k].has,
                       days |-> [day \in DOMAIN users[k].days |->
                                   IF Len(users[k].days[day]) = 1
                                   THEN <<RefAt(k, day)>> ELSE <<>>]]]]

\* WheatleyClient.__init__: self.state = load_state()
Start ==
    LET r == load_state(client.file) IN
    /\ client' = IF r[1] = "ok"
                 THEN [client EXCEPT !.heap = Loaded(r[2]).heap,
                                     !.state = Loaded(r[2]).state,
                                     !.ret = <<>>, !.outcome = "load_state"]
                 ELSE [client EXCEPT !.heap = EmptyHeap, !.state = <<>>, !.ret = <<>>,
                                     !.outcome = r[1]]
    /\ UNCHANGED <<db, last, tasks, base>>

\* set_day_availability_in_state: the state after the call.
set_day_availability_in_state(c, user_id, day, start, end) ==
    LET k     == uid(user_id)
        had   == k \in DOMAIN c.state /\ c.state[k].has
        old   == IF had THEN c.state[k].days ELSE empty_availability
        full  == [d \in DayKeySet |-> IF d \in DOMAIN old THEN old[d] ELSE <<>>]
        r     == NewRef(c)
        clear == start = <<>> \/ end = <<>>
        days  == [full EXCEPT ![day] = IF clear THEN <<>> ELSE <<r>>]
    IN  [c EXCEPT !.state = [x \in DOMAIN c.state \cup {k} |->
                                IF x = k THEN [has |-> TRUE, days |-> days]
                                ELSE c.state[x]],
                  !.heap = IF clear THEN @
                           ELSE [@ EXCEPT ![r] = [start |-> start, end |-> end]]]

\* save_state: state.json becomes the value of the state.
save_state(c) == [c EXCEPT !.file = [kind |-> "ok", users |-> StateValue(c)]]

\* The set-availability command of bot.py.
SetAvailabilityInState(user_id, day, start, end) ==
    /\ client.outcome \notin {"none", "OSError"}
    /\ HasRoom(client)
    /\ client' = [save_state(Collect(set_day_availability_in_state(client, user_id, day,
                                                                   start, end)))
                    EXCEPT !.outcome = "set_day_availability_in_state"]
    /\ UNCHANGED <<db, last, tasks, base>>

\* get_availability_from_state: the missing weekday keys are added to the
\* stored dict, and the dict returned maps each weekday key to list(slots), a
\* new list of the same {"start", "end"} objects (the dict and the lists are
\* new objects that only the caller holds, so they are values here).
get_availability_from_state(c, user_id) ==
    LET k == uid(user_id) IN
    IF k \notin DOMAIN c.state \/ ~c.state[k].has THEN [c EXCEPT !.ret = empty_availability]
    ELSE LET full == [d \in DayKeySet |->
                        IF d \in DOMAIN c.state[k].days THEN c.state[k].days[d] ELSE <<>>]
         IN  [c EXCEPT !.state[k].days = full, !.ret = full]

GetAvailabilityFromState(user_id) ==
    /\ client.outcome \notin {"none", "OSError"}
    /\ client' = [Collect(get_availability_from_state(client, user_id))
                    EXCEPT !.outcome = "get_availability_from_state",
                           !.user_id = user_id]
    /\ UNCHANGED <<db, last, tasks, base>>

\* The caller appends a new dict to a list of the dict returned.
RetAppend(day, start, end) ==
    /\ client.ret # <<>>
    /\ HasRoom(client)
    /\ LET r == NewRef(client) IN
       client' = [client EXCEPT !.heap[r] = [start |-> start, end |-> end],
                                !.ret[day] = Append(@, r),
                                !.outcome = "caller"]
    /\ UNCHANGED <<db, last, tasks, base>>

\* The caller assigns a new list to a key of the dict returned.
RetAssign(day, start, end) ==
    /\ client.ret # <<>>
    /\ HasRoom(client)
    /\ LET r == NewRef(client) IN
       client' = Collect([client EXCEPT !.heap[r] = [start |-> start, end |-> end],
                                        !.ret[day] = <<r>>,
                                        !.outcome = "caller"])
    /\ UNCHANGED <<db, last, tasks, base>>

\* The caller assigns to the "start" of an entry of a list of the dict
\* returned.
RetEditEntry(day, i, start) ==
    /\ client.ret # <<>>
    /\ i \in 1..Len(client.ret[day])
    /\ client' = [client EXCEPT !.heap[client.ret[day][i]].start = start,
                                !.outcome = "caller"]
    /\ UNCHANGED <<db, last, tasks, base>>

\* The users a well-formed state.json may hold: user 1 with a slot on mon and
\* no other weekday key, user 2 without an "availability" dict.
FileUsers ==
    (uid(1) :> [has  |-> TRUE,
                days |-> ("mon" :> <<[start |-> strftime_HM(18, 0),
                                      end   |-> strftime_HM(22, 0)]>>)])
    @@ (uid(2) :> [has |-> FALSE, days |-> <<>>])

\* state.json when the bot starts: missing, unreadable, not JSON, JSON of
\* another shape, or a well-formed state.
FilePool ==
    {[kind |-> k, users |-> <<>>] :
        k \in {"missing", "unreadable", "corrupt", "not_dict", "no_users",
               "users_not_dict"}}
    \cup {[kind |-> "ok", users |-> FileUsers]}

\* The users that call commands; user 3 never sets anything.
JsonUsers == {1, 2, 3}

InitJson ==
    /\ db = EmptyDb
    /\ last = NoCall
    /\ tasks = NoTasks
    /\ base = EmptyDb
    /\ client \in {[NoClient EXCEPT !.file = f, !.heap = EmptyHeap] : f \in FilePool}

NextJson ==
    \/ Start
    \/ \E u \in {1}, day \in {"mon", "tue"} :
          \/ SetAvailabilityInState(u, day, strftime_HM(18, 0), strftime_HM(22, 0))
          \/ SetAvailabilityInState(u, day, <<>>, <<>>)
    \/ \E u \in JsonUsers : GetAvailabilityFromState(u)
    \/ RetAppend("mon", strftime_HM(10, 0), strftime_HM(12, 0))
    \/ RetAssign("tue", strftime_HM(10, 0), strftime_HM(12, 0))
    \/ \E day \in {"mon", "tue"} : RetEditEntry(day, 1, StartOfDay)

SpecJson == InitJson /\ [][NextJson]_vars

\* C22 (as claimed): when state.json cannot be read or is not a well-formed
\* state, loading it fails with an error; it never yields a state.
C22_LoadFailsStep ==
    ( /\ client'.outcome \in {"load_state", "OSError"}
      /\ client' # client
      /\ client.file = client'.file
      /\ client.file.kind \in {"unreadable", "corrupt", "not_dict", "no_users",
                               "users_not_dict"} )
    => client'.outcome # "load_state"

C22_LoadFails == [][C22_LoadFailsStep]_vars

\* C26 (as claimed): no change the caller makes to the dict returned by
\* get_availability_from_state, to its lists or to the entries of its lists
\* changes the stored state; for a missing user the call returns all seven
\* days empty and does not create the user.
C26_CopyStep ==
    /\ (client'.outcome = "caller") => StateValue(client') = StateValue(client)
    /\ ( /\ client'.outcome = "get_availability_from_state"
         /\ uid(client'.user_id) \notin DOMAIN client.state )
       => /\ ValueOf(client'.heap, client'.ret) = [day \in DayKeySet |-> <<>>]
          /\ client'.state = client.state

C26_Copy == [][C26_CopyStep]_vars

(***************************************************************************)
(* The next available window                                               *)
(*                                                                         *)
(* Database.next_available is called by the next-available command and by  *)
(* the tests; its body is the scan the specification describes.            *)
(***************************************************************************)

RECURSIVE FirstUnended(_, _, _)
\* The first slot of a day's list, from position i on, that ends after
\* now_str: <<slot>>, or <<>> when there is none.
FirstUnended(slots, i, now_str) ==
    IF i > Len(slots) THEN <<>>
    ELSE IF StrLess(now_str, slots[i].end) THEN <<slots[i]>>
    ELSE FirstUnended(slots, i + 1, now_str)

RECURSIVE ScanDays(_, _, _, _)
\* The scan of the weekdays from offset off after the local weekday:
\* <<[day, start, end, is_now]>>, or <<>> for None.
ScanDays(av, local_now, now_str, off) ==
    IF off >= Len(DAY_KEYS) THEN <<>>
    ELSE LET day   == DAY_KEYS[((local_now.weekday + off) % Len(DAY_KEYS)) + 1]
             found == IF off = 0 THEN FirstUnended(av[day], 1, now_str)
                      ELSE IF Len(av[day]) > 0 THEN <<av[day][1]>> ELSE <<>>
         IN  IF found = <<>> THEN ScanDays(av, local_now, now_str, off + 1)
             ELSE <<[day |-> day, start |-> found[1].start, end |-> found[1].end,
                     is_now |-> off = 0 /\ StrLeq(found[1].start, now_str)]>>

\* Database.next_available: None without a timezone, otherwise the scan of
\* the user's schedule from the local weekday of now_utc.
next_available(d, user_id, now_utc) ==
    LET tz_name == get_timezone(d, user_id) IN
    IF tz_name = NULL \/ tz_name \notin DOMAIN ZoneOffset THEN <<>>
    ELSE LET local_now == astimezone(now_utc, tz_name)
             now_str   == strftime_HM(local_now.minute \div 60, local_now.minute % 60)
         IN  ScanDays(get_availability(d, user_id), local_now, now_str, 0)

Call_next_available(user_id, now_utc) ==
    /\ db' = db
    /\ last' = [NoCall EXCEPT !.op = "next_available", !.user_id = user_id,
                              !.now = now_utc, !.outcome = "ok",
                              !.out = next_available(db, user_id, now_utc)]
    /\ UNCHANGED <<tasks, base, client>>

\* The user whose next window is asked for.
WindowUsers == {123}

WindowZones == {"UTC", "US/Eastern"}

\* The slots added: thu 10:00-12:00, thu 18:00-22:00, fri 18:00-22:00 and
\* mon 10:00-12:00.
WindowSlots ==
    {<<"thu", strftime_HM(10, 0), strftime_HM(12, 0)>>,
     <<"thu", strftime_HM(18, 0), strftime_HM(22, 0)>>,
     <<"fri", strftime_HM(18, 0), strftime_HM(22, 0)>>,
     <<"mon", strftime_HM(10, 0), strftime_HM(12, 0)>>}

\* UTC instants: Thu 12:00, Thu 20:00 (Thu 15:00 US/Eastern), Fri 01:00
\* (Thu 20:00 US/Eastern), Fri 22:00 and Sat 12:00.
WindowNow ==
    {[weekday |-> 3, minute |-> 12 * 60], [weekday |-> 3, minute |-> 20 * 60],
     [weekday |-> 4, minute |-> 60], [weekday |-> 4, minute |-> 22 * 60],
     [weekday |-> 5, minute |-> 12 * 60]}

InitWindow ==
    /\ db = EmptyDb
    /\ last = NoCall
    /\ tasks = NoTasks
    /\ base = EmptyDb
    /\ client = NoClient

NextWindow ==
    \/ \E u \in WindowUsers, tz \in WindowZones : Call_set_timezone(u, tz)
    \/ \E u \in WindowUsers, x \in WindowSlots :
          /\ Call_add_day_availability(u, x[1], x[2], x[3])
          /\ Len(db'.availability) <= MaxRows
    \/ \E u \in WindowUsers, now \in WindowNow : Call_next_available(u, now)

SpecWindow == InitWindow /\ [][NextWindow]_vars

\* The slots that have not ended at a local time, each with its distance in
\* days from the local weekday: every slot of a later day, and the slots of
\* the local day that end after the local minute.
Unended(d, user_id, loc) ==
    {c \in [off : 0..6, slot : UNION {SlotSet(d, user_id, day) : day \in DayKeySet}] :
        /\ c.slot \in SlotSet(d, user_id, WeekdayKey[(loc.weekday + c.off) % 7])
        /\ (c.off = 0 => MinuteOf(c.slot.end) > loc.minute)}

\* Scan order: earlier day first, and within a day earlier start first.
ScannedBefore(a, b) ==
    \/ a.off < b.off
    \/ a.off = b.off /\ MinuteOf(a.slot.start) < MinuteOf(b.slot.start)

TimeChars == {Digit(0), Digit(2), Digit(4), Digit(6), 58}

\* The strings tried: three characters to the length of "00:00".
TimeStrings == UNION {[1..n -> TimeChars] : n \in 3..Len(StartOfDay)}

Call_validate_time(t) ==
    /\ db' = db
    /\ last' = [NoCall EXCEPT !.op = "validate_time", !.start = t, !.outcome = "ok",
                              !.out = <<validate_time(t)>>]
    /\ UNCHANGED <<tasks, base, client>>

InitTime ==
    /\ db = EmptyDb
    /\ last = NoCall
    /\ tasks = NoTasks
    /\ base = EmptyDb
    /\ client = NoClient

NextTime == \E t \in TimeStrings : Call_validate_time(t)

SpecTime == InitTime /\ [][NextTime]_vars

\* The minute of the day of a string that strptime("%H:%M") accepts.
ClockMinute(t) ==
    LET k == CHOOSE j \in 1..Len(t) : t[j] = 58 IN
    DigitsValue(SubSeq(t, 1, k - 1)) * 60 + DigitsValue(SubSeq(t, k + 1, Len(t)))

\* C24 (as claimed): validate_time(s) is true exactly when s is two digits,
\* a colon and two digits with hour 00..23 and minute 00..59, and on the
\* strings it accepts string order agrees with the order of the clock times.
C24_StrictHHMM ==
    last.op = "validate_time" =>
        /\ last.out[1] = IsHHMM(last.start)
        /\ last.out[1] =>
              \A t \in TimePool :
                  StrLess(last.start, t) <=> ClockMinute(last.start) < ClockMinute(t)

(***************************************************************************)
(* Handlers that read while others write                                   *)
(***************************************************************************)

\* The writer is user 1, in UTC, with the game "A"; the reader of
\* ready_to_play is user 2, who has the same game.
ReadersDb == add_game(add_game(set_timezone(EmptyDb, 1, "UTC"), 1, GameA), 2, GameA)

\* Mon 01:00 UTC.
ReadNow == [weekday |-> 0, minute |-> 60]

\* The commands dispatched: set-availability and clear-availability of user 1
\* on sun (a slot that starts after it ends runs into mon),
\* my-availability of user 1 and ready-to-play of user 2.
ReadWriteCommands ==
    {Started("set_availability", u, "sun", s, e) :
        u \in UserPool, s \in TimePool, e \in TimePool}
    \cup {Started("clear_availability", u, "sun", <<>>, <<>>) : u \in UserPool}
    \cup {StartedRead("my_availability", u, ReadNow) : u \in UserPool}
    \cup {StartedRead("ready_to_play", u, ReadNow) : u \in OtherUsers}

InitReads ==
    /\ db = ReadersDb
    /\ last = NoCall
    /\ tasks = NoTasks
    /\ base = ReadersDb
    /\ client = NoClient

DispatchReadWrite ==
    /\ \A t \in TaskIds : tasks[t].pc \in {"idle", "done"}
    /\ Len(db.availability) <= MaxRows
    /\ tasks' \in [TaskIds -> ReadWriteCommands]
    /\ base' = db
    /\ UNCHANGED <<db, last, client>>

NextReads ==
    \/ DispatchReadWrite
    \/ \E t \in TaskIds : Run(t)

SpecReads == InitReads /\ [][NextReads]_vars

\* The handlers in flight that change the store.
Writers == {t \in TaskIds : tasks[t].cmd \in {"set_availability", "clear_availability"}}

\* The handlers in flight that have made their query.
ReadersDone ==
    {t \in TaskIds : /\ tasks[t].cmd \in {"my_availability", "ready_to_play"}
                     /\ tasks[t].pc \in {"send_message", "done"}}

\* The databases between whole store operations: the database at dispatch
\* after some of the writers' operations, each made as one call.
Snapshots == {ApplyInOrder(base, o) : o \in UNION {Orders(S) : S \in SUBSET Writers}}

\* What the query of a reading handler returns on a database.
ReadOn(d, t) ==
    IF t.cmd = "my_availability" THEN <<get_availability(d, t.user_id)>>
    ELSE <<find_ready_players(d, t.user_id, t.now, <<>>)>>

\* C25: under every interleaving of handlers, what my_availability
\* (get_availability) and ready_to_play (find_ready_players) read is what
\* the query returns on the database before or after whole store operations
\* of the concurrent writers; in particular never one half of an overnight
\* add without the other, and never a day whose merged slots are deleted and
\* not yet replaced.
C25_NoTornRead ==
    \A t \in ReadersDone : \E d \in Snapshots : tasks[t].rows = ReadOn(d, tasks[t])

\* C25 witness: my_availability has read both halves of an overnight add of
\* a concurrent handler that is suspended at its reply.
C25_Witness ==
    \E w \in Writers, r \in ReadersDone :
        /\ tasks[w].cmd = "set_availability"
        /\ tasks[w].pc = "send_message"
        /\ StrLess(tasks[w].end, tasks[w].start)
        /\ tasks[w].end # StartOfDay
        /\ tasks[r].cmd = "my_availability"
        /\ tasks[r].pc = "send_message"
        /\ Slots(base, tasks[w].user_id, "sun") = <<>>
        /\ Slots(base, tasks[w].user_id, "mon") = <<>>
        /\ tasks[r].rows[1]["sun"] = <<[start |-> tasks[w].start, end |-> EndOfDay]>>
        /\ tasks[r].rows[1]["mon"] = <<[start |-> StartOfDay, end |-> tasks[w].end]>>

(***************************************************************************)
(* Overnight slots and matchmaking                                         *)
(***************************************************************************)

\* The timezones the user sets.
NightZones == {"UTC", "US/Eastern"}

InitNight ==
    /\ db = EmptyDb
    /\ last = NoCall
    /\ tasks = NoTasks
    /\ base = EmptyDb
    /\ client = NoClient

NextNight ==
    \/ \E u \in UserPool, tz \in NightZones : Call_set_timezone(u, tz)
    \/ \E u \in UserPool, day \in DayPool, s \in TimePool, e \in TimePool :
          /\ Call_add_day_availability(u, day, s, e)
          /\ Len(db'.availability) <= MaxRows
    \/ \E u \in UserPool, day \in DayPool : Call_clear_day_availability(u, day)

SpecNight == InitNight /\ [][NextNight]_vars

\* The UTC instants probed: every weekday, every hour, minutes 00 and 59.
ProbeInstants == [weekday : 0..6, minute : ProbeMinutes]

\* The timezone stored for a user, NULL when there is none.
ZoneOf(d, user_id) ==
    LET rows == {r \in d.users : r.user_id = uid(user_id)} IN
    IF rows = {} THEN NULL ELSE (CHOOSE r \in rows : TRUE).timezone

\* C28: after an accepted add_day_availability(u, day, s, e) with s > e on a
\* schedule that was empty, and with u's timezone set, u is available at a
\* UTC instant exactly when the local instant is on day at or after s, or on
\* the following weekday before e.
C28_OvernightStep ==
    LET l == last' IN
    ( /\ AddedOk(l)
      /\ StrLess(l.end, l.start)
      /\ \A day \in DayKeySet : Slots(db, l.user_id, day) = <<>>
      /\ ZoneOf(db', l.user_id) # NULL )
    => \A now \in ProbeInstants :
          LET loc == LocalTime(now, ZoneOf(db', l.user_id)) IN
          (l.user_id \in available_user_ids(db', now))
          <=> \/ WeekdayKey[loc.weekday] = l.day /\ loc.minute >= MinuteOf(l.start)
              \/ /\ WeekdayKey[loc.weekday] = FollowingDay[l.day]
                 /\ loc.minute < MinuteOf(l.end)

C28_Overnight == [][C28_OvernightStep]_vars

\* C28 witness: a US/Eastern user whose schedule was empty has added sun
\* 22:00-10:00 and is available at Mon 04:59 UTC (Sun 23:59 local), at Mon
\* 05:00 UTC (Mon 00:00 local) and not at Mon 15:00 UTC (Mon 10:00 local).
C28_Witness ==
    /\ AddedOk(last)
    /\ last.day = "sun"
    /\ last.start = strftime_HM(22, 0)
    /\ last.end = strftime_HM(10, 0)
    /\ ZoneOf(db, last.user_id) = "US/Eastern"
    /\ Slots(db, last.user_id, "sun") = <<[start |-> last.start, end |-> EndOfDay]>>
    /\ Slots(db, last.user_id, "mon") = <<[start |-> StartOfDay, end |-> last.end]>>
    /\ last.user_id \in available_user_ids(db, [weekday |-> 0, minute |-> 4 * 60 + 59])
    /\ last.user_id \in available_user_ids(db, [weekday |-> 0, minute |-> 5 * 60])
    /\ last.user_id \notin available_user_ids(db, [weekday |-> 0, minute |-> 15 * 60])

(***************************************************************************)
(* What an add leaves alone                                                *)
(***************************************************************************)

\* Users 1 and 2 have a timezone and a game each, and user 2 has the slot
\* mon 10:00-22:00.
FrameDb ==
    add_game(set_timezone(add_game(set_timezone(OtherUserDb, 2, "UTC"), 2, GameA),
                          1, "US/Eastern"),
             1, GameB)

InitFrame ==
    /\ db = FrameDb
    /\ last = NoCall
    /\ tasks = NoTasks
    /\ base = EmptyDb
    /\ client = NoClient

\* User 1 adds and clears; at most MaxRows rows besides user 2's.
NextFrame ==
    \/ \E u \in UserPool, day \in DayPool, s \in TimePool, e \in TimePool :
          /\ Call_add_day_availability(u, day, s, e)
          /\ Len(db'.availability) <= MaxRows + 1
    \/ \E u \in UserPool, day \in DayPool : Call_clear_day_availability(u, day)

SpecFrame == InitFrame /\ [][NextFrame]_vars

\* The games and the timezone of every user, and the slots of every
\* (user, day) outside a set of days of one user.
Outside(d, user_id, days) ==
    [games |-> d.games,
     zones |-> {r \in d.users : r.timezone # NULL},
     slots |-> [u \in AllUsers, day \in DayKeySet |->
                   IF u = user_id /\ day \in days THEN <<>> ELSE Slots(d, u, day)]]

\* C30: an accepted add_day_availability(u, day, s, e) changes only u's
\* slots on day, and on the following weekday when s > e: u's slots on the
\* other days, every other user's slots, and all games and timezones stay
\* as they were.
C30_FrameStep ==
    LET l == last' IN
    AddedOk(l) =>
        LET days == IF StrLess(l.end, l.start) THEN {l.day, FollowingDay[l.day]}
                    ELSE {l.day}
        IN  Outside(db', l.user_id, days) = Outside(db, l.user_id, days)

C30_Frame == [][C30_FrameStep]_vars

\* C30 witness: user 1 has added sun 22:00-10:00, which changed sun and
\* mon of user 1, while user 2's slot on mon and the timezones and games are
\* in place.
C30_Witness ==
    /\ AddedOk(last)
    /\ last.user_id = 1
    /\ last.day = "sun"
    /\ StrLess(last.end, last.start)
    /\ Slots(db, 1, "mon") = <<[start |-> StartOfDay, end |-> last.end]>>
    /\ Slots(db, 2, "mon") = <<[start |-> strftime_HM(10, 0), end |-> strftime_HM(22, 0)]>>
    /\ get_timezone(db, 1) = "US/Eastern"
    /\ get_timezone(db, 2) = "UTC"
    /\ list_games(db, 1) = <<GameB>>
    /\ list_games(db, 2) = <<GameA>>

=============================================================================
